---- MODULE Spec2Model ----
(***************************************************************************)
(* petpropy: correlations for gas, oil and water properties.               *)
(*                                                                         *)
(* The model follows one call of a public formula from the caller's        *)
(* argument objects to the returned value (or the raised exception).       *)
(* A formula wrapped by vectorize_decorator is run by numpy.vectorize:     *)
(* once on the first entries of the arguments to find the output type      *)
(* (the probe, idx = 0), then once per element (idx = 1..n).  A formula    *)
(* that is not wrapped runs once, on the caller's objects themselves.      *)
(*                                                                         *)
(* Numbers.  Pressures and temperatures are integers (psia, oR); a ratio   *)
(* such as P_pr = P/Ppc is kept as the exact fraction <<n, d>> with d > 0  *)
(* and compared by cross-multiplication.  Coefficients with four decimals  *)
(* are integers in units of 1e-4.                                          *)
(***************************************************************************)
EXTENDS Integers, Sequences, FiniteSets, TLC

VARIABLES
    pc,     \* position of the call: "call", "probe", "elem", "returned", "raised"
    fn,     \* the formula that is called
    args,   \* the caller's argument objects, by parameter name
    args0,  \* what the argument objects held when the call was made
    kept,   \* values the caller keeps from the calls it made before this one
    idx,    \* element the wrapper is on: 0 = the probe, 1..n = the elements
    loc,    \* local variables of the running invocation of the formula
    out,    \* the results collected so far
    exc     \* the exception that left the call, "none" when there is none

vars == <<pc, fn, args, args0, kept, idx, loc, out, exc>>

\* Longest array a caller passes.
MaxLen == 2

NoLocals == [stage |-> "none"]

(***************************************************************************)
(* Argument objects.  A scalar and a 1-D ndarray are both carried as a     *)
(* sequence, with the kind beside it.                                      *)
(***************************************************************************)
Scalar(x) == [kind |-> "scalar", v |-> <<x>>]
Array(s) == [kind |-> "array", v |-> s]

Size(a) == Len(a.v)

\* Broadcasting of a scalar against the elements of a 1-D array.
Elem(a, i) == IF a.kind = "scalar" THEN a.v[1] ELSE a.v[i]

ArraysUpTo(S, n) == UNION {[1..k -> S] : k \in 0..n}

\* Number of elements of the broadcast of all arguments.
BroadcastSize(a) ==
    IF \E k \in DOMAIN a : Size(a[k]) = 0 THEN 0
    ELSE IF \A k \in DOMAIN a : a[k].kind = "scalar" THEN 1
    ELSE CHOOSE n \in 1..(MaxLen + 1) :
             \E k \in DOMAIN a : a[k].kind = "array" /\ Size(a[k]) = n

\* The element the wrapper hands to the formula: the first entries for the
\* probe, the idx-th entries afterwards.
Pos == IF idx = 0 THEN 1 ELSE idx
Cur(name) == Elem(args[name], Pos)

(***************************************************************************)
(* The public formulas of the gas, oil and water packages, module by       *)
(* module: "wrapped" is a def under @vectorize_decorator, "plain" a def    *)
(* without it, "mixture" a def that reads the mixture from input() or      *)
(* from a DataFrame.                                                      *)
(***************************************************************************)
gas_compressibility ==
    [papay |-> "wrapped",
     brill_beggs |-> "wrapped",
     gopal |-> "wrapped"]

gas_compressibility_factor ==
    [wichert_aziz_correction |-> "mixture",
     wichert_aziz |-> "plain",
     papay |-> "wrapped",
     brill_beggs |-> "wrapped",
     hall_yarborough |-> "wrapped",
     gopal |-> "wrapped",
     dranchuk_abou_kassem |-> "wrapped",
     dranchuk_purvis_robinson |-> "wrapped"]

gas_density ==
    [rho_gas |-> "wrapped"]

gas_viscosity ==
    [lee_gonzalez_eakin |-> "wrapped"]

gas_volumetric_factor ==
    [B_g |-> "wrapped",
     E_g |-> "wrapped"]

pseudocritical_properties_gas ==
    [mathews_roland_correlation_c7 |-> "plain",
     sutton |-> "plain",
     kay |-> "mixture",
     kay_df |-> "mixture",
     stewart |-> "mixture",
     stewart_df |-> "mixture",
     brown_katz |-> "mixture",
     brown_katz_grv |-> "plain",
     brown_katz_df |-> "mixture"]

specific_gravity_gas ==
    [gamma_gas |-> "plain"]

weight_molecular_gas ==
    [gas_weight_molecular |-> "mixture",
     gas_weight_molecular_df |-> "mixture"]

bubble_pressure ==
    [standing |-> "plain",
     lasater |-> "plain",
     vazquez_beggs |-> "plain",
     glaso |-> "plain",
     total |-> "plain",
     almarhoun |-> "plain",
     dokla_osman |-> "plain",
     petrosky_farshad |-> "plain",
     kartoatmodjo_schmidt |-> "plain"]

gas_oil_interfacial_tension ==
    [baker_swedloff |-> "wrapped"]

oil_compressibility ==
    [vazquez_beggs |-> "wrapped",
     petrosky_farshad |-> "wrapped",
     kartoatmodjo_schmidt |-> "wrapped",
     maccain_rollins_villena |-> "wrapped"]

oil_density ==
    [vazquez_beggs |-> "wrapped",
     petrosky_farshad |-> "wrapped",
     ahmed |-> "wrapped",
     standing |-> "wrapped",
     rho_o_basic |-> "wrapped"]

oil_viscosity ==
    [beal_muod |-> "wrapped",
     beggs_robinson_muod |-> "wrapped",
     glaso_muod |-> "wrapped",
     egbogad_muod |-> "wrapped",
     kartoatmodjo_schmidt_muod |-> "wrapped",
     chew_connally_muob |-> "wrapped",
     beggs_robinson_muob |-> "wrapped",
     kartoatmodjo_schmidt_muob |-> "wrapped",
     beal_muo |-> "wrapped",
     vazquez_beggs_muo |-> "wrapped",
     kartoatmodjo_schmidt_muo |-> "wrapped",
     mu_oil |-> "wrapped"]

oil_volumetric_factor ==
    [standing |-> "wrapped",
     vazquez_beggs |-> "wrapped",
     glaso |-> "wrapped",
     total |-> "wrapped",
     almarhoun |-> "wrapped",
     dokla_osman |-> "wrapped",
     petrosky_farshad |-> "wrapped",
     kartoatmodjo_schmidt |-> "wrapped",
     factor_oil |-> "wrapped"]

solution_gas_oil_ratio ==
    [standing |-> "wrapped",
     lasater |-> "wrapped",
     vazquez |-> "wrapped",
     glaso |-> "wrapped",
     total |-> "wrapped",
     almarhoun |-> "wrapped",
     dokla_osman |-> "wrapped",
     petrosky_farshad |-> "wrapped",
     kartoatmodjo_schmidt |-> "wrapped"]

specific_gravity_oil ==
    [gamma_oil |-> "plain",
     api |-> "plain"]

total_volumetric_factor ==
    [factor_total |-> "wrapped",
     glaso |-> "wrapped",
     almarhoun |-> "plain"]

gas_water_interfacial_tension ==
    [jennings_newman |-> "wrapped"]

solution_gas_water_ratio ==
    [culberson_macketta |-> "wrapped",
     mccoy |-> "wrapped"]

water_compressibility ==
    [dodson_standing |-> "wrapped",
     osif |-> "wrapped",
     brill_beggs |-> "wrapped"]

water_density ==
    [rho_water_equation |-> "wrapped",
     mccain |-> "wrapped"]

water_viscosity ==
    [van_wingen |-> "wrapped",
     matthews_russel |-> "wrapped",
     mccain |-> "wrapped",
     mccoy |-> "wrapped"]

water_volumetric_factor ==
    [mccain |-> "wrapped",
     mccoy |-> "wrapped",
     factor_bw |-> "wrapped"]

\* The names the packages import the modules under.
Catalog ==
    [c_g |-> gas_compressibility,
     z_g |-> gas_compressibility_factor,
     rho_g |-> gas_density,
     mu_g |-> gas_viscosity,
     Bg |-> gas_volumetric_factor,
     pc_g |-> pseudocritical_properties_gas,
     gamma_g |-> specific_gravity_gas,
     m_g |-> weight_molecular_gas,
     Pb |-> bubble_pressure,
     sigma_o |-> gas_oil_interfacial_tension,
     c_o |-> oil_compressibility,
     rho_o |-> oil_density,
     mu_o |-> oil_viscosity,
     Bo |-> oil_volumetric_factor,
     Rs |-> solution_gas_oil_ratio,
     gamma_o |-> specific_gravity_oil,
     Bt |-> total_volumetric_factor,
     sigma_w |-> gas_water_interfacial_tension,
     Rsw |-> solution_gas_water_ratio,
     c_w |-> water_compressibility,
     rho_w |-> water_density,
     mu_w |-> water_viscosity,
     Bw |-> water_volumetric_factor]

\* The qualified names, such as "Pb.standing", of the formulas of one kind.
Formulas(kind) ==
    UNION {{m \o "." \o f : f \in {g \in DOMAIN Catalog[m] : Catalog[m][g] = kind}} :
              m \in DOMAIN Catalog}

Wrapped(f) == f \in Formulas("wrapped")

(***************************************************************************)
(* vectorize_decorator: numpy.vectorize(func) with no otypes.              *)
(***************************************************************************)
\* numpy refuses a size-0 input when otypes is not set.
VecRejectsEmpty(a) == BroadcastSize(a) = 0

VecEnter ==
    /\ pc = "call"
    /\ Wrapped(fn)
    /\ IF VecRejectsEmpty(args)
       THEN /\ pc' = "raised"
            /\ exc' = "ValueError"
            /\ UNCHANGED idx
       ELSE /\ pc' = "probe"
            /\ idx' = 0
            /\ UNCHANGED exc
    /\ UNCHANGED <<fn, args, args0, kept, loc, out>>

\* What the wrapper does with the outcome r = [exc, val] of one invocation.
Deliver(r) ==
    IF r.exc # "none"
    THEN /\ pc' = "raised"
         /\ exc' = r.exc
         /\ out' = <<>>
         /\ UNCHANGED idx
    ELSE IF idx = 0
    THEN /\ pc' = "elem"
         /\ idx' = 1
         /\ UNCHANGED <<out, exc>>
    ELSE /\ out' = Append(out, r.val)
         /\ pc' = IF idx = BroadcastSize(args) THEN "returned" ELSE "elem"
         /\ idx' = IF idx = BroadcastSize(args) THEN idx ELSE idx + 1
         /\ UNCHANGED exc

Running == pc \in {"probe", "elem"}

Returned(v) == [exc |-> "none", val |-> v]
Raised(e) == [exc |-> e, val |-> 0]

(***************************************************************************)
(* Gopal correlation: gas_compressibility_factor.gopal (z) and             *)
(* gas_compressibility.gopal (c_gas).                                      *)
(***************************************************************************)
\* a/b <= c/d for b, d > 0
Le(a, b, c, d) == a * d <= c * b

\* Between with the upper edge left out.
BetweenHalfOpen(lo, n, d, hi) == Le(lo, 100, n, d) /\ ~Le(hi, 100, n, d)

\* lo/10^2 <= n/d <= hi/10^2, as in Python's chained comparison
Between(lo, n, d, hi) == Le(lo, 100, n, d) /\ Le(n, d, hi, 100)

\* PBand with the bands tested from the highest down.
PBandHighFirst(P, Ppc) ==
    IF Between(540, P, Ppc, 1500) THEN 4
    ELSE IF Between(280, P, Ppc, 540) THEN 3
    ELSE IF Between(120, P, Ppc, 280) THEN 2
    ELSE IF Between(20, P, Ppc, 120) THEN 1
    ELSE 0

\* PBand with a closing else in place of the last elif.
PBandElse(P, Ppc) ==
    IF Between(20, P, Ppc, 120) THEN 1
    ELSE IF Between(120, P, Ppc, 280) THEN 2
    ELSE IF Between(280, P, Ppc, 540) THEN 3
    ELSE 4

\* Pressure band of P_pr = P/Ppc, first match in the order of the if/elif chain.
PBand(P, Ppc) ==
    IF Between(20, P, Ppc, 120) THEN 1
    ELSE IF Between(120, P, Ppc, 280) THEN 2
    ELSE IF Between(280, P, Ppc, 540) THEN 3
    ELSE IF Between(540, P, Ppc, 1500) THEN 4
    ELSE 0

\* TBand with the bands tested from the highest down.
TBandHighFirst(T, Tpc) ==
    IF Between(200, T, Tpc, 300) THEN 4
    ELSE IF Between(140, T, Tpc, 200) THEN 3
    ELSE IF Between(120, T, Tpc, 140) THEN 2
    ELSE IF Between(105, T, Tpc, 120) THEN 1
    ELSE 0

\* Temperature band of T_pr = T/Tpc inside pressure bands 1 to 3.
TBand(T, Tpc) ==
    IF Between(105, T, Tpc, 120) THEN 1
    ELSE IF Between(120, T, Tpc, 140) THEN 2
    ELSE IF Between(140, T, Tpc, 200) THEN 3
    ELSE IF Between(200, T, Tpc, 300) THEN 4
    ELSE 0

\* The single temperature test of pressure band 4.
TBandWide(T, Tpc) == IF Between(105, T, Tpc, 300) THEN 1 ELSE 0

\* Sub-formula selected, 1..13, or 0 when no branch assigns the result.
GopalForm(P, T, Ppc, Tpc) ==
    LET pb == PBand(P, Ppc) IN
    IF pb = 0 THEN 0
    ELSE IF pb = 4 THEN (IF TBandWide(T, Tpc) = 1 THEN 13 ELSE 0)
    ELSE LET tb == TBand(T, Tpc) IN
         IF tb = 0 THEN 0 ELSE 4 * (pb - 1) + tb

\* z = P_pr*(a*T_pr + b) + c*T_pr + d of the twelve linear sub-formulas,
\* <<a, b, c, d>> in units of 1e-4.
GopalZCoef ==
    << <<16643, -22114, -3647, 14385>>,
       <<522, -8511, -364, 10490>>,
       <<1391, -2988, 7, 9969>>,
       <<295, -825, 9, 9967>>,
       <<-13570, 14942, 46315, -47009>>,
       <<1717, -3232, 5869, 1229>>,
       <<984, -2053, 621, 8580>>,
       <<211, -527, 127, 9549>>,
       <<-3278, 4752, 18223, -19036>>,
       <<-2521, 3871, 16087, -16635>>,
       <<-284, 625, 4714, -11>>,
       <<41, 39, 607, 7927>> >>

\* dZr = a*T_pr + b of the twelve linear sub-formulas of the c_gas variant,
\* <<a, b>> in units of 1e-4.
GopalDZrCoef ==
    << <<16643, -22114>>,
       <<522, -8511>>,
       <<1391, -2988>>,
       <<295, -825>>,
       <<-13570, 14942>>,
       <<1717, -3232>>,
       <<984, -2053>>,
       <<211, -527>>,
       <<-3278, 4752>>,
       <<-2521, 3871>>,
       <<-284, 625>>,
       <<-41, 39>> >>

\* (0.711 + 3.66*T_pr) as a fraction; the sub-formula raises it to -1.4667.
GopalPowBase(T, Tpc) == <<711 * Tpc + 3660 * T, 1000 * Tpc>>

\* The value z of gas_compressibility_factor.gopal.  A linear sub-formula
\* gives the exact fraction num/den.  Sub-formula 13 gives
\* P_pr * base^(-1.4667) + num/den with the power left unevaluated.
GopalZValue(k, P, T, Ppc, Tpc) ==
    IF k = 13
    THEN [form |-> 13,
          pow |-> GopalPowBase(T, Tpc),
          num |-> 2071 * (319 * T + 522 * Tpc) - 1637000 * Tpc,
          den |-> 1000 * (319 * T + 522 * Tpc)]
    ELSE LET c == GopalZCoef[k] IN
         [form |-> k,
          pow |-> <<0, 1>>,
          num |-> P * (c[1] * T + c[2] * Tpc) + c[3] * T * Ppc + c[4] * Ppc * Tpc,
          den |-> 10000 * Ppc * Tpc]

z_g_gopal(P, T, Ppc, Tpc) ==
    LET k == GopalForm(P, T, Ppc, Tpc) IN
    IF k = 0 THEN Raised("UnboundLocalError")
    ELSE Returned(GopalZValue(k, P, T, Ppc, Tpc))

\* The slope dZr of gas_compressibility.gopal as a fraction (sub-formula 13:
\* the base of the unevaluated power).
GopalDZr(k, T, Tpc) ==
    IF k = 13
    THEN [form |-> 13, pow |-> GopalPowBase(T, Tpc), num |-> 0, den |-> 1]
    ELSE LET c == GopalDZrCoef[k] IN
         [form |-> k, pow |-> <<0, 1>>,
          num |-> c[1] * T + c[2] * Tpc, den |-> 10000 * Tpc]

\* cg = ((1/P_pr) - (1/z)*dZr) / Ppc, kept as its operands: z is the
\* caller's z factor in units of 1e-2.
c_g_gopal(P, T, Ppc, Tpc, z) ==
    LET k == GopalForm(P, T, Ppc, Tpc) IN
    IF k = 0 THEN Raised("UnboundLocalError")
    ELSE Returned([dZr |-> GopalDZr(k, T, Tpc),
                   inv_P_pr |-> <<Ppc, P>>,
                   inv_z |-> <<100, z>>,
                   Ppc |-> Ppc])

\* Inputs of the Gopal calls: grid points on, between and outside the band edges.
GopalP == {2, 4, 10, 24, 28, 56, 108, 150, 300, 400}
GopalT == {10, 21, 22, 24, 28, 40, 50, 60, 70}
GopalPpc == {20}
GopalTpc == {20}
GopalZ == {90}

InitGopal ==
    /\ pc = "call"
    /\ fn \in {"z_g.gopal", "c_g.gopal"}
    /\ \E P \in ArraysUpTo(GopalP, MaxLen), T \in GopalT,
          Ppc \in GopalPpc, Tpc \in GopalTpc, z \in GopalZ :
          args = [P |-> Array(P), T |-> Scalar(T), Ppc |-> Scalar(Ppc),
                  Tpc |-> Scalar(Tpc), z |-> Scalar(z)]
    /\ args0 = args
    /\ kept = <<>>
    /\ idx = 0
    /\ loc = NoLocals
    /\ out = <<>>
    /\ exc = "none"

GopalZCall ==
    /\ Running
    /\ fn = "z_g.gopal"
    /\ Deliver(z_g_gopal(Cur("P"), Cur("T"), Cur("Ppc"), Cur("Tpc")))
    /\ UNCHANGED <<fn, args, args0, kept, loc>>

GopalCgCall ==
    /\ Running
    /\ fn = "c_g.gopal"
    /\ Deliver(c_g_gopal(Cur("P"), Cur("T"), Cur("Ppc"), Cur("Tpc"), Cur("z")))
    /\ UNCHANGED <<fn, args, args0, kept, loc>>

NextGopal == VecEnter \/ GopalZCall \/ GopalCgCall

SpecGopal == InitGopal /\ [][NextGopal]_vars

(***************************************************************************)
(* Newton solvers of gas_compressibility_factor: hall_yarborough,          *)
(* dranchuk_abou_kassem, dranchuk_purvis_robinson.                         *)
(*                                                                         *)
(* The residual F and the Newton map are transcendental in the iterate     *)
(* and are not evaluated.  An iterate is carried as the term               *)
(* [guess, n]: n Newton updates applied to the starting value guess, for   *)
(* the input the invocation runs on.  Both are deterministic functions of  *)
(* (input, iterate), so an input point is carried with `conv`, the number  *)
(* of updates after which its residual first passes the tolerance test     *)
(* (Never when abs(F) < tolerance is false at every iterate, as it is      *)
(* for a NaN residual).                                                    *)
(***************************************************************************)
max_iterations == 1000

Never == 0 - 1

Solvers == {"z_g.hall_yarborough", "z_g.dranchuk_abou_kassem",
            "z_g.dranchuk_purvis_robinson"}

\* InitialGuess with z = 1.0 for the Dranchuk solvers.
InitialGuessOne(f) == IF f = "z_g.hall_yarborough" THEN 1 ELSE 100000

\* The starting value in units of 1e-5: y1 = 0.00001, z = 0.5.
InitialGuess(f) == IF f = "z_g.hall_yarborough" THEN 1 ELSE 50000

\* InitialLocals that keeps the iterate and the counter of the last
\* invocation when there was one.
InitialLocalsKept(f, old) ==
    IF old.stage = "dead"
    THEN [stage |-> "loop", y |-> old.y, iteration |-> old.iteration,
          F |-> "unset", updates |-> 0]
    ELSE [stage |-> "loop", y |-> [guess |-> InitialGuess(f), n |-> 0],
          iteration |-> 0, F |-> "unset", updates |-> 0]

\* The locals after the lines before the while loop.  `updates` counts the
\* Newton updates of this invocation and is not a variable of the code.
InitialLocals(f, old) ==
    [stage |-> "loop", y |-> [guess |-> InitialGuess(f), n |-> 0],
     iteration |-> 0, F |-> "unset", updates |-> 0]

\* abs(F) < tolerance for the residual evaluated at iterate y of input x.
ResidualPasses(f, x, y) == y.guess = InitialGuess(f) /\ y.n = x.conv

\* y - F/dF
NewtonUpdate(y) == [y EXCEPT !.n = y.n + 1]

\* The while test with <= in place of <.
LoopTestInclusive(l) == l.iteration <= max_iterations

\* while iteration < max_iterations
LoopTest(l) == l.iteration < max_iterations

\* LoopPass with the tolerance test before the update: the pass whose
\* residual passes leaves the iterate as it is.
LoopPassTestFirst(f, x, l) ==
    LET passes == ResidualPasses(f, x, l.y) IN
    [l EXCEPT !.F = IF passes THEN "small" ELSE "large",
              !.y = IF passes THEN l.y ELSE NewtonUpdate(l.y),
              !.updates = IF passes THEN l.updates ELSE l.updates + 1,
              !.stage = IF passes THEN "exit" ELSE "loop",
              !.iteration = IF passes THEN l.iteration ELSE l.iteration + 1]

\* One pass of the loop body: residual, update, tolerance test, counter.
LoopPass(f, x, l) ==
    LET passes == ResidualPasses(f, x, l.y) IN
    [l EXCEPT !.F = IF passes THEN "small" ELSE "large",
              !.y = NewtonUpdate(l.y),
              !.updates = l.updates + 1,
              !.stage = IF passes THEN "exit" ELSE "loop",
              !.iteration = IF passes THEN l.iteration ELSE l.iteration + 1]

\* SolverValue with the Dranchuk solvers returning the z the loop left.
SolverValueIterate(f, x, l) ==
    IF f = "z_g.hall_yarborough"
    THEN [of |-> "0.06125*P_pr*t*exp(-1.2*(1-t)**2)/y1", P |-> x.P, at |-> l.y]
    ELSE [of |-> "z", P |-> x.P, at |-> l.y]

\* The value returned after the loop.  hall_yarborough: z = 0.06125*P_pr*t*
\* exp(-1.2*(1 - t)**2) / y1.  The Dranchuk solvers: the equation of state
\* evaluated at dr = 0.27*(P_pr/(z*T_pr)) for the z the loop left.
SolverValue(f, x, l) ==
    IF f = "z_g.hall_yarborough"
    THEN [of |-> "0.06125*P_pr*t*exp(-1.2*(1-t)**2)/y1", P |-> x.P, at |-> l.y]
    ELSE [of |-> "eos(0.27*(P_pr/(z*T_pr)))", P |-> x.P, at |-> l.y]

\* Input points: pressure and convergence index.
SolverPoints ==
    {[P |-> 500, conv |-> 0], [P |-> 1000, conv |-> 3],
     [P |-> 2000, conv |-> max_iterations - 1], [P |-> 9000, conv |-> Never]}
SolverT == {654}
SolverPpc == {680}
SolverTpc == {486}

InitSolver ==
    /\ pc = "call"
    /\ fn \in Solvers
    /\ \E P \in ArraysUpTo(SolverPoints, MaxLen), T \in SolverT,
          Ppc \in SolverPpc, Tpc \in SolverTpc :
          args = [P |-> Array(P), T |-> Scalar(T), Ppc |-> Scalar(Ppc),
                  Tpc |-> Scalar(Tpc)]
    /\ args0 = args
    /\ kept = <<>>
    /\ idx = 0
    /\ loc = NoLocals
    /\ out = <<>>
    /\ exc = "none"

SolverEnter ==
    /\ Running
    /\ fn \in Solvers
    /\ loc.stage \in {"none", "dead"}
    /\ loc' = InitialLocals(fn, loc)
    /\ UNCHANGED <<pc, fn, args, args0, kept, idx, out, exc>>

SolverIterate ==
    /\ Running
    /\ fn \in Solvers
    /\ loc.stage = "loop"
    /\ loc' = IF LoopTest(loc)
              THEN LoopPass(fn, Cur("P"), loc)
              ELSE [loc EXCEPT !.stage = "exit"]
    /\ UNCHANGED <<pc, fn, args, args0, kept, idx, out, exc>>

\* The frame is gone after the return: nothing reads the locals it leaves.
SolverReturn ==
    /\ Running
    /\ fn \in Solvers
    /\ loc.stage = "exit"
    /\ Deliver(Returned(SolverValue(fn, Cur("P"), loc)))
    /\ loc' = [loc EXCEPT !.stage = "dead"]
    /\ UNCHANGED <<fn, args, args0, kept>>

NextSolver == VecEnter \/ SolverEnter \/ SolverIterate \/ SolverReturn

SpecSolver == InitSolver /\ [][NextSolver]_vars

(***************************************************************************)
(* oil_volumetric_factor: standing and factor_oil.                         *)
(*                                                                         *)
(* Volumetric factors are in units of 1e-4, compressibilities in units of  *)
(* 1e-7 psia^-1, and the argument and the value of exp in units of 1e-4.   *)
(***************************************************************************)
\* math.exp to four decimals for the small arguments of the pressure
\* correction: the series to the third order.
ExpFx(x) == 10000 + x + (x * x) \div 20000 + (x * x * x) \div 600000000

\* co*d to four decimals
CoTimes(co, d) == (co * d) \div 1000

\* factor_oil with the closing parenthesis of exp after co.
factor_oil_misplaced(P, Pb, B_ob, co) ==
    ((B_ob * ExpFx(CoTimes(co, 1))) \div 10000) * (Pb - P)

\* Bo = B_ob*exp(co*(Pb-P))
factor_oil(P, Pb, B_ob, co) == (B_ob * ExpFx(CoTimes(co, Pb - P))) \div 10000

\* B_ob = 0.9759 + 12e-5*F**1.2 of standing at the sample inputs, to four
\* decimals (gamma_api = 31, gamma_gas = 0.95).
StandingBob(T, R_sb) ==
    CASE T = 640 /\ R_sb = 350 -> 12298
      [] T = 640 /\ R_sb = 673 -> 14126
      [] T = 660 /\ R_sb = 350 -> 12428
      [] T = 660 /\ R_sb = 673 -> 14268

Bo_standing(T, R_sb, P, Pb, co) ==
    LET B_ob == StandingBob(T, R_sb) IN
    IF P # 0 /\ Pb # 0 /\ co # 0
    THEN (B_ob * ExpFx(CoTimes(co, Pb - P))) \div 10000
    ELSE B_ob

BoT == {640, 660}
BoRsb == {350, 673}
BoPb == {2500}
BoP == {2000, 2500, 3000}
BoCo == {96, 150}

InitBo ==
    /\ pc = "call"
    /\ fn = "Bo.standing"
    /\ \E T \in BoT, R_sb \in BoRsb, k \in {<<0, 0, 0>>, <<3000, 2500, 96>>} :
          args = [T |-> Scalar(T), R_sb |-> Scalar(R_sb), P |-> Scalar(k[1]),
                  Pb |-> Scalar(k[2]), co |-> Scalar(k[3])]
    /\ args0 = args
    /\ kept = <<>>
    /\ idx = 0
    /\ loc = NoLocals
    /\ out = <<>>
    /\ exc = "none"

BoStandingCall ==
    /\ Running
    /\ fn = "Bo.standing"
    /\ Deliver(Returned(Bo_standing(Cur("T"), Cur("R_sb"), Cur("P"), Cur("Pb"),
                                    Cur("co"))))
    /\ UNCHANGED <<fn, args, args0, kept, loc>>

\* The caller passes the bubble-point factor it got to factor_oil.
CallFactorOil ==
    /\ pc = "returned"
    /\ fn = "Bo.standing"
    /\ args.P = Scalar(0)
    /\ \E P \in {Array(a) : a \in ArraysUpTo(BoP, MaxLen)} \cup {Scalar(x) : x \in BoP},
          Pb \in BoPb, co \in BoCo :
          args' = [P |-> P, Pb |-> Scalar(Pb), B_ob |-> Scalar(out[1]),
                   co |-> Scalar(co)]
    /\ args0' = args'
    /\ kept' = <<args0>>
    /\ fn' = "Bo.factor_oil"
    /\ pc' = "call"
    /\ idx' = 0
    /\ out' = <<>>
    /\ UNCHANGED <<loc, exc>>

FactorOilCall ==
    /\ Running
    /\ fn = "Bo.factor_oil"
    /\ Deliver(Returned(factor_oil(Cur("P"), Cur("Pb"), Cur("B_ob"), Cur("co"))))
    /\ UNCHANGED <<fn, args, args0, kept, loc>>

NextBo == VecEnter \/ BoStandingCall \/ CallFactorOil \/ FactorOilCall

SpecBo == InitBo /\ [][NextBo]_vars

(***************************************************************************)
(* Vazquez-Beggs: bubble_pressure.vazquez_beggs (not wrapped) and          *)
(* solution_gas_oil_ratio.vazquez (wrapped).  Both are products of powers, *)
(* so a value is carried by its natural logarithm, an integer in units of  *)
(* 1e-7, beside the factors that are kept as terms: [ln, factors], each    *)
(* factor a term raised to the power pw[1]/pw[2].                          *)
(***************************************************************************)
\* a*b/c without forming a*b
MulDiv(a, b, c) ==
    LET n == IF c < 0 THEN 0 - a ELSE a
        d == IF c < 0 THEN 0 - c ELSE c
    IN  (n \div d) * b + ((n % d) * b) \div d

\* ln of the sample R_sb and gamma_gas (gamma_gas in hundredths)
LnRsb(R_sb) == CASE R_sb = 200 -> 52983174 [] R_sb = 500 -> 62146081
LnGamma(g) == CASE g = 70 -> 0 - 3566749 [] g = 80 -> 0 - 2231436

\* C1 (as ln C1), C2 (1e-4) and C3 (1e-3) of bubble_pressure.vazquez_beggs
PbVBCoef(gamma_api) ==
    IF gamma_api <= 30
    THEN [lnC1 |-> 0 - 33186962, C2 |-> 10937, C3 |-> 25724]
    ELSE [lnC1 |-> 0 - 40285568, C2 |-> 11870, C3 |-> 23931]

\* C1, C2 and C3 of solution_gas_oil_ratio.vazquez
RsVCoef(gamma_api) ==
    IF gamma_api <= 30
    THEN [lnC1 |-> 0 - 33186962, C2 |-> 10937, C3 |-> 25724]
    ELSE [lnC1 |-> 0 - 40285568, C2 |-> 11870, C3 |-> 23931]

\* (C3*gamma_api)/T, the argument of exp
ExpArg(C3, gamma_api, T) == MulDiv(C3 * gamma_api, 10000, T)

\* 1 + 5.912e-5*gamma_api*T_sp*log10(P_sp/114.7), the factor of gamma_gc
SepTerm(gamma_api, T_sp, P_sp) ==
    [expr |-> "1 + 5.912e-5*gamma_api*T_sp*log10(P_sp/114.7)",
     gamma_api |-> gamma_api, T_sp |-> T_sp, P_sp |-> P_sp]

\* c_N2*c_CO2*c_H2S at the temperature the correction is computed with
ImpurityTerm(gamma_api, T, y_N2, y_CO2, y_H2S) ==
    [expr |-> "c_N2*c_CO2*c_H2S", gamma_api |-> gamma_api, T |-> T,
     y_N2 |-> y_N2, y_CO2 |-> y_CO2, y_H2S |-> y_H2S]

\* The correction is taken when either separator input is given.
SeparatorGivenEither(P_sp, T_sp) == P_sp # 0 \/ T_sp # 0

\* if P_sp != 0 and T_sp != 0
SeparatorGiven(P_sp, T_sp) == P_sp # 0 /\ T_sp # 0

Factor(n, d, term) == [pw |-> <<n, d>>, term |-> term]

\* The factors f raised to the power n/d
PowFactors(f, n, d) ==
    [i \in DOMAIN f |-> Factor(f[i].pw[1] * n, f[i].pw[2] * d, f[i].term)]

\* round(x, 5) moves ln x by e units, e in RoundErr
RoundErr == {0 - 1, 0, 1}

\* Pb = (R_sb/(C1*gamma_g*exp((C3*gamma_api)/T)))**(1/C2) after T -= 460,
\* gamma_g being gamma_gc (with T_sp -= 460) when the separator is given;
\* with impurities T -= 460 once more, then Pb*c_N2*c_CO2*c_H2S.
Pb_vazquez_beggs(R_sb, gamma_gas, T, gamma_api, P_sp, T_sp, y_N2, y_CO2, y_H2S, e) ==
    LET c == PbVBCoef(gamma_api)
        sep == SeparatorGiven(P_sp, T_sp)
        T1 == T - 460
        lnX == LnRsb(R_sb) - c.lnC1 - LnGamma(gamma_gas) - ExpArg(c.C3, gamma_api, T1)
        gc == IF sep
              THEN <<Factor(0 - 10000, c.C2, SepTerm(gamma_api, T_sp - 460, P_sp))>>
              ELSE <<>>
        Pb == [ln |-> MulDiv(lnX, 10000, c.C2), factors |-> gc]
    IN  IF y_N2 # 0 \/ y_CO2 # 0 \/ y_H2S # 0
        THEN [ln |-> Pb.ln + e,
              factors |-> Pb.factors \o
                  <<Factor(1, 1, ImpurityTerm(gamma_api, T1 - 460, y_N2, y_CO2, y_H2S))>>]
        ELSE [ln |-> Pb.ln + e, factors |-> Pb.factors]

\* Rs = C1*gamma_g*(P**C2)*exp((C3*gamma_api)/T) with P = Pb when P >= Pb;
\* T and T_sp are used as they are passed.
Rs_vazquez(P, T, gamma_gas, gamma_api, Pb, P_sp, T_sp) ==
    LET c == RsVCoef(gamma_api)
        sep == SeparatorGiven(P_sp, T_sp)
        Pu == IF P.ln >= Pb.ln THEN Pb ELSE P
        gc == IF sep THEN <<Factor(1, 1, SepTerm(gamma_api, T_sp, P_sp))>> ELSE <<>>
    IN  [ln |-> c.lnC1 + LnGamma(gamma_gas) + MulDiv(Pu.ln, c.C2, 10000)
                  + ExpArg(c.C3, gamma_api, T),
         factors |-> PowFactors(Pu.factors, c.C2, 10000) \o gc]

(***************************************************************************)
(* bubble_pressure.standing and water_compressibility.osif                 *)
(***************************************************************************)
\* ln(10)*a for a in units of 1e-5
Ln10Times(a) == a * 230 + (a * 2585) \div 10000

\* Pb = 18.2*(F - 1.4) with F = (R_sb/gamma_gas)**0.83 *
\* 10**(0.00091*(T-460) - 0.0125*gamma_api), F carried by its logarithm;
\* with impurities T -= 460, then Pb*c_N2*c_CO2*c_H2S.
Pb_standing(R_sb, gamma_gas, T, gamma_api, y_N2, y_CO2, y_H2S, e) ==
    LET lnF == MulDiv(LnRsb(R_sb) - LnGamma(gamma_gas), 83, 100)
                 + Ln10Times(91 * (T - 460) - 1250 * gamma_api)
    IN  [expr |-> "18.2*(F - 1.4)", lnF |-> lnF, round |-> e,
         factors |-> IF y_N2 # 0 \/ y_CO2 # 0 \/ y_H2S # 0
                     THEN <<Factor(1, 1, ImpurityTerm(gamma_api, T - 460, y_N2, y_CO2, y_H2S))>>
                     ELSE <<>>]

\* cw = 1/(7.033*P + 541.5*S - 537*T + 403300) after T -= 460 and
\* S /= 10000, as the fraction num/den in thousandths.
c_w_osif(P, T, S) ==
    LET T1 == T - 460
    IN  [num |-> 1000,
         den |-> 7033 * P + (5415 * S) \div 100000 - 537000 * T1 + 403300000]

\* 1 + 0.1595*gamma_api**0.4078*T_sp**(-0.2466)*log10(P_sp/114.7)
SepTermKS(gamma_api, T_sp, P_sp) ==
    [expr |-> "1 + 0.1595*gamma_api**0.4078*T_sp**(-0.2466)*log10(P_sp/114.7)",
     gamma_api |-> gamma_api, T_sp |-> T_sp, P_sp |-> P_sp]

\* co = abs((-1433 + 5*Rs + 17.2*(T-460) - 1180*gamma_g + 12.61*gamma_api)
\* / (P*10**5)), gamma_g being gamma_gc (with T_sp -= 460) when the
\* separator is given; the sum without the gas term is in hundredths.
c_o_vazquez_beggs(P, T, gamma_api, gamma_gas, Rs, P_sp, T_sp) ==
    [expr |-> "abs((rest - 1180*gamma_g)/(P*10**5))",
     rest |-> 0 - 143300 + 500 * Rs + 1720 * (T - 460) + 1261 * gamma_api,
     gamma_gas |-> gamma_gas,
     factors |-> IF SeparatorGiven(P_sp, T_sp)
                 THEN <<Factor(1, 1, SepTermKS(gamma_api, T_sp - 460, P_sp))>>
                 ELSE <<>>,
     P |-> P]

\* B_ob = 1 + C1*R_sb + C2*((T-460)-60)*(gamma_api/gamma_g)
\*        + C3*R_sb*((T-460)-60)*(gamma_api/gamma_g), gamma_g being gamma_gc
\* (with T_sp -= 460) when the separator is given; B_ob*exp(co*(Pb-P)) when
\* P, Pb and co are all given.
Bo_vazquez_beggs(T, R_sb, gamma_api, gamma_gas, P, Pb, co, P_sp, T_sp) ==
    [expr |-> "1 + C1*R_sb + (C2 + C3*R_sb)*((T-460)-60)*(gamma_api/gamma_g)",
     C |-> IF gamma_api <= 30 THEN "gamma_api <= 30" ELSE "gamma_api > 30",
     R_sb |-> R_sb, dT |-> (T - 460) - 60, gamma_api |-> gamma_api,
     gamma_gas |-> gamma_gas,
     factors |-> IF SeparatorGiven(P_sp, T_sp)
                 THEN <<Factor(1, 1, SepTermKS(gamma_api, T_sp - 460, P_sp))>>
                 ELSE <<>>,
     undersaturated |-> IF P # 0 /\ Pb # 0 /\ co # 0
                        THEN <<[expr |-> "exp(co*(Pb-P))", co |-> co, dP |-> Pb - P]>>
                        ELSE <<>>]

\* x -= k on the object a the caller passed: an ndarray is changed in
\* place, a number is only rebound inside the function.
InPlaceSub(a, k) ==
    IF a.kind = "array" THEN Array([i \in DOMAIN a.v |-> a.v[i] - k]) ELSE a

\* What a formula that is not wrapped returns for the values r, one per
\* element of the broadcast arguments.
DirectResult(a, r) ==
    /\ pc' = "returned"
    /\ out' = [i \in 1..BroadcastSize(a) |-> r[i]]
    /\ UNCHANGED <<fn, args0, kept, idx, loc, exc>>

Impure(a) == a.y_N2 # Scalar(0) \/ a.y_CO2 # Scalar(0) \/ a.y_H2S # Scalar(0)

PbT == {660, 700}
PbRsb == {200, 500}
PbGamma == {70, 80}
PbApi == {25, 30, 35}
PbSep == {<<0, 0>>, <<100, 0>>, <<0, 520>>, <<100, 520>>}
PbYN2 == {0, 5}
OsifP == {1000, 3000}
OsifS == {10000, 30000}
BoUnder == {<<0, 0, 0>>, <<3000, 2000, 15>>, <<3000, 0, 15>>}

TObjects == {Array(a) : a \in ArraysUpTo(PbT, MaxLen)} \cup {Scalar(x) : x \in PbT}

InitPb ==
    /\ pc = "call"
    /\ \/ /\ fn \in {"Pb.standing", "Pb.vazquez_beggs"}
          /\ \E R_sb \in PbRsb, g \in PbGamma, T \in TObjects, api \in PbApi,
                sp \in PbSep, y \in PbYN2 :
                args = [R_sb |-> Scalar(R_sb), gamma_gas |-> Scalar(g), T |-> T,
                        gamma_api |-> Scalar(api), P_sp |-> Scalar(sp[1]),
                        T_sp |-> Scalar(sp[2]), y_N2 |-> Scalar(y),
                        y_CO2 |-> Scalar(0), y_H2S |-> Scalar(0)]
                /\ (fn = "Pb.standing" => sp = <<0, 0>>)
       \/ /\ fn = "c_w.osif"
          /\ \E P \in OsifP, T \in TObjects, S \in OsifS :
                args = [P |-> Scalar(P), T |-> T, S |-> Scalar(S)]
       \/ /\ fn = "c_o.vazquez_beggs"
          /\ \E P \in OsifP, T \in TObjects, api \in PbApi, g \in PbGamma,
                Rs \in PbRsb, sp \in PbSep :
                args = [P |-> Scalar(P), T |-> T, gamma_api |-> Scalar(api),
                        gamma_gas |-> Scalar(g), Rs |-> Scalar(Rs),
                        P_sp |-> Scalar(sp[1]), T_sp |-> Scalar(sp[2])]
       \/ /\ fn = "Bo.vazquez_beggs"
          /\ \E T \in TObjects, R_sb \in PbRsb, api \in PbApi, g \in PbGamma,
                u \in BoUnder, sp \in PbSep :
                args = [T |-> T, R_sb |-> Scalar(R_sb), gamma_api |-> Scalar(api),
                        gamma_gas |-> Scalar(g), P |-> Scalar(u[1]),
                        Pb |-> Scalar(u[2]), co |-> Scalar(u[3]),
                        P_sp |-> Scalar(sp[1]), T_sp |-> Scalar(sp[2])]
    /\ args0 = args
    /\ kept = <<>>
    /\ idx = 0
    /\ loc = NoLocals
    /\ out = <<>>
    /\ exc = "none"

PbStandingCall ==
    /\ pc = "call"
    /\ fn = "Pb.standing"
    /\ \E e \in [1..BroadcastSize(args) -> RoundErr] :
          DirectResult(args,
              [i \in 1..BroadcastSize(args) |->
                  Pb_standing(Elem(args.R_sb, i), Elem(args.gamma_gas, i),
                              Elem(args.T, i), Elem(args.gamma_api, i),
                              Elem(args.y_N2, i), Elem(args.y_CO2, i),
                              Elem(args.y_H2S, i), e[i])])
    /\ args' = IF Impure(args)
               THEN [args EXCEPT !.T = InPlaceSub(@, 460)]
               ELSE args

PbVazquezBeggsCall ==
    /\ pc = "call"
    /\ fn = "Pb.vazquez_beggs"
    /\ \E e \in [1..BroadcastSize(args) -> RoundErr] :
          DirectResult(args,
              [i \in 1..BroadcastSize(args) |->
                  Pb_vazquez_beggs(Elem(args.R_sb, i), Elem(args.gamma_gas, i),
                                   Elem(args.T, i), Elem(args.gamma_api, i),
                                   Elem(args.P_sp, i), Elem(args.T_sp, i),
                                   Elem(args.y_N2, i), Elem(args.y_CO2, i),
                                   Elem(args.y_H2S, i), e[i])])
    /\ args' = [args EXCEPT
                  !.T = InPlaceSub(@, IF Impure(args) THEN 920 ELSE 460),
                  !.T_sp = IF SeparatorGiven(Elem(args.P_sp, 1), Elem(args.T_sp, 1))
                           THEN InPlaceSub(@, 460) ELSE @]

\* The caller passes the bubble pressure it got, with the objects it holds,
\* to solution_gas_oil_ratio.vazquez as P and as Pb.
CallRsVazquez ==
    /\ pc = "returned"
    /\ fn = "Pb.vazquez_beggs"
    /\ LET Pb == IF args.T.kind = "array" THEN Array(out) ELSE Scalar(out[1])
       IN  args' = [P |-> Pb, T |-> args.T, gamma_gas |-> args.gamma_gas,
                    gamma_api |-> args.gamma_api, Pb |-> Pb,
                    P_sp |-> args.P_sp, T_sp |-> args.T_sp]
    /\ args0' = args'
    /\ kept' = <<args0>>
    /\ fn' = "Rs.vazquez"
    /\ pc' = "call"
    /\ idx' = 0
    /\ out' = <<>>
    /\ UNCHANGED <<loc, exc>>

RsVazquezCall ==
    /\ Running
    /\ fn = "Rs.vazquez"
    /\ Deliver(Returned(Rs_vazquez(Cur("P"), Cur("T"), Cur("gamma_gas"),
                                   Cur("gamma_api"), Cur("Pb"), Cur("P_sp"),
                                   Cur("T_sp"))))
    /\ UNCHANGED <<fn, args, args0, kept, loc>>

OsifCall ==
    /\ Running
    /\ fn = "c_w.osif"
    /\ Deliver(Returned(c_w_osif(Cur("P"), Cur("T"), Cur("S"))))
    /\ UNCHANGED <<fn, args, args0, kept, loc>>

CoVazquezBeggsCall ==
    /\ Running
    /\ fn = "c_o.vazquez_beggs"
    /\ Deliver(Returned(c_o_vazquez_beggs(Cur("P"), Cur("T"), Cur("gamma_api"),
                                          Cur("gamma_gas"), Cur("Rs"), Cur("P_sp"),
                                          Cur("T_sp"))))
    /\ UNCHANGED <<fn, args, args0, kept, loc>>

BoVazquezBeggsCall ==
    /\ Running
    /\ fn = "Bo.vazquez_beggs"
    /\ Deliver(Returned(Bo_vazquez_beggs(Cur("T"), Cur("R_sb"), Cur("gamma_api"),
                                         Cur("gamma_gas"), Cur("P"), Cur("Pb"),
                                         Cur("co"), Cur("P_sp"), Cur("T_sp"))))
    /\ UNCHANGED <<fn, args, args0, kept, loc>>

NextPb ==
    \/ CoVazquezBeggsCall
    \/ BoVazquezBeggsCall
    \/ VecEnter
    \/ PbStandingCall
    \/ PbVazquezBeggsCall
    \/ CallRsVazquez
    \/ RsVazquezCall
    \/ OsifCall

SpecPb == InitPb /\ [][NextPb]_vars

(***************************************************************************)
(* Division by zero.  The probe runs the formula on numpy scalars          *)
(* (arg.flat[0]), whose division by zero gives inf or nan with a warning;  *)
(* the element calls run it on the Python objects of the object arrays,    *)
(* whose division by zero raises ZeroDivisionError.                        *)
(***************************************************************************)
\* The wrapper is on Python objects (an element) and not on numpy scalars.
PyObjects == idx # 0

\* A quotient n/d, or the inf or nan a numpy division by zero gives.
Quot(n, d) == [fault |-> FALSE, n |-> n, d |-> d]
Fault == [fault |-> TRUE, n |-> 0, d |-> 0]

\* Every division by zero gives inf or nan.
TrueDivNumpy(n, d, py) ==
    IF d = 0 THEN Returned(Fault) ELSE Returned(Quot(n, d))

\* n / d
TrueDiv(n, d, py) ==
    IF d = 0
    THEN IF py THEN Raised("ZeroDivisionError") ELSE Returned(Fault)
    ELSE Returned(Quot(n, d))

\* The first exception among the outcomes s, in the order of the statements.
FirstRaised(s) ==
    IF \E i \in DOMAIN s : s[i].exc # "none"
    THEN s[CHOOSE i \in DOMAIN s :
               s[i].exc # "none" /\ \A j \in 1..(i - 1) : s[j].exc = "none"]
    ELSE Returned(0)

Faulty(s) == \E i \in DOMAIN s : s[i].val.fault

\* z = 1 - 3.52*P_pr/10**(0.9813*T_pr) + 0.274*P_pr**2/10**(0.8157*T_pr)
z_g_papay(P, T, Ppc, Tpc, py) ==
    LET s == <<TrueDiv(P, Ppc, py), TrueDiv(T, Tpc, py)>>
    IN  IF FirstRaised(s).exc # "none" THEN FirstRaised(s)
        ELSE IF Faulty(s) THEN Returned(Fault)
        ELSE Returned([f |-> "z_g.papay", P_pr |-> s[1].val, T_pr |-> s[2].val])

\* A = 1.39*(T_pr-0.92)**0.5 - ..., B with 0.066/(T_pr-0.86), C, D, then
\* z = A + (1-A)/exp(B) + C*P_pr**D, or A + C*P_pr**D when exp(B) is inf.
\* Below T_pr = 0.92 the square root is complex for a Python float.
z_g_brill_beggs(P, T, Ppc, Tpc, py) ==
    LET s == <<TrueDiv(P, Ppc, py), TrueDiv(T, Tpc, py)>>
        B == IF s[2].exc = "none" /\ ~s[2].val.fault
             THEN TrueDiv(66 * Tpc, 100 * T - 86 * Tpc, py)
             ELSE Returned(Fault)
        all == s \o <<B>>
    IN  IF FirstRaised(all).exc # "none" THEN FirstRaised(all)
        ELSE IF Faulty(all) THEN Returned(Fault)
        ELSE Returned([f |-> "z_g.brill_beggs", P_pr |-> s[1].val, T_pr |-> s[2].val,
                       A |-> IF 100 * T < 92 * Tpc THEN "complex" ELSE "real"])

\* dZr from P_pr and T_pr, cr = (1/P_pr) - ((1/z)*dZr), cg = cr/Ppc
c_g_papay(P, T, Ppc, Tpc, z, py) ==
    LET s == <<TrueDiv(P, Ppc, py), TrueDiv(T, Tpc, py)>>
        cr == IF s[1].exc = "none" /\ ~s[1].val.fault
              THEN <<TrueDiv(Ppc, P, py), TrueDiv(1, z, py)>>
              ELSE <<Returned(Fault), TrueDiv(1, z, py)>>
        all == s \o cr
    IN  IF FirstRaised(all).exc # "none" THEN FirstRaised(all)
        ELSE IF Faulty(all) THEN Returned(Fault)
        ELSE Returned([f |-> "c_g.papay", P_pr |-> s[1].val, T_pr |-> s[2].val,
                       z |-> z, Ppc |-> Ppc])

FaultP == {0, 200, 300}
FaultT == {86, 150}
FaultPpc == {0, 100}
FaultTpc == {0, 100}
FaultZ == {0, 90}

InitFault ==
    /\ pc = "call"
    /\ fn \in {"z_g.papay", "z_g.brill_beggs", "c_g.papay"}
    /\ \E P \in {Array(a) : a \in ArraysUpTo(FaultP, MaxLen)} \cup {Scalar(x) : x \in FaultP},
          T \in FaultT, Ppc \in FaultPpc, Tpc \in FaultTpc, z \in FaultZ :
          args = [P |-> P, T |-> Scalar(T), Ppc |-> Scalar(Ppc),
                  Tpc |-> Scalar(Tpc), z |-> Scalar(z)]
    /\ args0 = args
    /\ kept = <<>>
    /\ idx = 0
    /\ loc = NoLocals
    /\ out = <<>>
    /\ exc = "none"

PapayZCall ==
    /\ Running
    /\ fn = "z_g.papay"
    /\ Deliver(z_g_papay(Cur("P"), Cur("T"), Cur("Ppc"), Cur("Tpc"), PyObjects))
    /\ UNCHANGED <<fn, args, args0, kept, loc>>

BrillBeggsZCall ==
    /\ Running
    /\ fn = "z_g.brill_beggs"
    /\ Deliver(z_g_brill_beggs(Cur("P"), Cur("T"), Cur("Ppc"), Cur("Tpc"), PyObjects))
    /\ UNCHANGED <<fn, args, args0, kept, loc>>

PapayCgCall ==
    /\ Running
    /\ fn = "c_g.papay"
    /\ Deliver(c_g_papay(Cur("P"), Cur("T"), Cur("Ppc"), Cur("Tpc"), Cur("z"), PyObjects))
    /\ UNCHANGED <<fn, args, args0, kept, loc>>

NextFault == VecEnter \/ PapayZCall \/ BrillBeggsZCall \/ PapayCgCall

SpecFault == InitFault /\ [][NextFault]_vars

(***************************************************************************)
(* TOTAL C.F.P.: bubble_pressure.total (not wrapped) and                   *)
(* solution_gas_oil_ratio.total (wrapped).  The coefficients are chosen by *)
(* an if/elif chain over gamma_api that has no else.                       *)
(***************************************************************************)
\* C1 (as ln C1), C2 (1e-4), C3 and C4 (1e-6) of bubble_pressure.total; with
\* no branch taken the names are unbound when Pb is computed.
PbTotalCoef(gamma_api) ==
    IF gamma_api <= 10
    THEN Returned([set |-> 1, lnC1 |-> 25531103, C2 |-> 9636, C3 |-> 993, C4 |-> 34170])
    ELSE IF 10 < gamma_api /\ gamma_api <= 35
    THEN Returned([set |-> 2, lnC1 |-> 32298355, C2 |-> 7617, C3 |-> 835, C4 |-> 11292])
    ELSE IF 35 < gamma_api /\ gamma_api <= 45
    THEN Returned([set |-> 3, lnC1 |-> 53774571, C2 |-> 6922, C3 |-> 0 - 427, C4 |-> 23140])
    ELSE Raised("UnboundLocalError")

\* C1 (as ln C1), C2 and C3 (1e-7) and C4 (1e-4) of solution_gas_oil_ratio.total
RsTotalCoef(gamma_api) ==
    IF gamma_api <= 10
    THEN Returned([set |-> 1, lnC1 |-> 25067578, C2 |-> 304050, C3 |-> 0, C4 |-> 9669])
    ELSE IF 10 < gamma_api /\ gamma_api <= 35
    THEN Returned([set |-> 2, lnC1 |-> 27084301, C2 |-> 152000, C3 |-> 4484, C4 |-> 10950])
    ELSE IF 35 < gamma_api /\ gamma_api <= 45
    THEN Returned([set |-> 3, lnC1 |-> 47267239, C2 |-> 248000, C3 |-> 0 - 14690, C4 |-> 11290])
    ELSE Raised("UnboundLocalError")

\* Pb = C1*((R_sb/gamma_gas)**C2)*10**(C3*(T-460) - C4*gamma_api); with
\* impurities T -= 460, then Pb*c_N2*c_CO2*c_H2S.
Pb_total(R_sb, gamma_gas, T, gamma_api, y_N2, y_CO2, y_H2S, e) ==
    LET c == PbTotalCoef(gamma_api) IN
    IF c.exc # "none" THEN c
    ELSE Returned(
        [set |-> c.val.set,
         ln |-> c.val.lnC1 + MulDiv(LnRsb(R_sb) - LnGamma(gamma_gas), c.val.C2, 10000)
                  + Ln10Times((c.val.C3 * (T - 460) - c.val.C4 * gamma_api) \div 10) + e,
         factors |-> IF y_N2 # 0 \/ y_CO2 # 0 \/ y_H2S # 0
                     THEN <<Factor(1, 1, ImpurityTerm(gamma_api, T - 460, y_N2, y_CO2, y_H2S))>>
                     ELSE <<>>])

\* ln of the sample pressures
LnP(P) == CASE P = 1000 -> 69077553 [] P = 2000 -> 76009025 [] P = 3000 -> 80063676

\* Rs = gamma_gas*(((P/C1)*10**(C2*gamma_api - C3*(T-460)))**C4), P = Pb when P >= Pb
Rs_total(P, T, gamma_gas, gamma_api, Pb) ==
    LET c == RsTotalCoef(gamma_api)
        Pu == IF P >= Pb THEN Pb ELSE P
    IN  IF c.exc # "none" THEN c
        ELSE Returned(
            [set |-> c.val.set,
             ln |-> LnGamma(gamma_gas)
                      + MulDiv(LnP(Pu) - c.val.lnC1
                                 + Ln10Times((c.val.C2 * gamma_api - c.val.C3 * (T - 460)) \div 100),
                               c.val.C4, 10000)])

\* What a formula that is not wrapped leaves when a statement raises e.
DirectRaise(e) ==
    /\ pc' = "raised"
    /\ exc' = e
    /\ out' = <<>>
    /\ UNCHANGED <<fn, args0, kept, idx, loc>>

TotalApi == {5, 10, 20, 35, 40, 45, 50}
TotalP == {1000, 2000}

InitTotal ==
    /\ pc = "call"
    /\ \/ /\ fn = "Pb.total"
          /\ \E R_sb \in PbRsb, g \in PbGamma, T \in TObjects, api \in TotalApi,
                y \in PbYN2 :
                args = [R_sb |-> Scalar(R_sb), gamma_gas |-> Scalar(g), T |-> T,
                        gamma_api |-> Scalar(api), y_N2 |-> Scalar(y),
                        y_CO2 |-> Scalar(0), y_H2S |-> Scalar(0)]
       \/ /\ fn = "Rs.total"
          /\ \E P \in {Array(a) : a \in ArraysUpTo(TotalP, MaxLen)} \cup {Scalar(x) : x \in TotalP},
                T \in PbT, g \in PbGamma, api \in TotalApi, Pb \in TotalP :
                args = [P |-> P, T |-> Scalar(T), gamma_gas |-> Scalar(g),
                        gamma_api |-> Scalar(api), Pb |-> Scalar(Pb)]
    /\ args0 = args
    /\ kept = <<>>
    /\ idx = 0
    /\ loc = NoLocals
    /\ out = <<>>
    /\ exc = "none"

PbTotalCall ==
    /\ pc = "call"
    /\ fn = "Pb.total"
    /\ \E e \in [1..BroadcastSize(args) -> RoundErr] :
          LET r == [i \in 1..BroadcastSize(args) |->
                       Pb_total(Elem(args.R_sb, i), Elem(args.gamma_gas, i),
                                Elem(args.T, i), Elem(args.gamma_api, i),
                                Elem(args.y_N2, i), Elem(args.y_CO2, i),
                                Elem(args.y_H2S, i), e[i])]
              c == PbTotalCoef(Elem(args.gamma_api, 1))
          IN  IF c.exc # "none"
              THEN DirectRaise(c.exc) /\ UNCHANGED args
              ELSE /\ DirectResult(args, [i \in 1..BroadcastSize(args) |-> r[i].val])
                   /\ args' = IF Impure(args)
                              THEN [args EXCEPT !.T = InPlaceSub(@, 460)]
                              ELSE args

RsTotalCall ==
    /\ Running
    /\ fn = "Rs.total"
    /\ Deliver(Rs_total(Cur("P"), Cur("T"), Cur("gamma_gas"), Cur("gamma_api"), Cur("Pb")))
    /\ UNCHANGED <<fn, args, args0, kept, loc>>

NextTotal == VecEnter \/ PbTotalCall \/ RsTotalCall

SpecTotal == InitTotal /\ [][NextTotal]_vars

(***************************************************************************)
(* Calls as the caller writes them.  The wrapper takes any positional and  *)
(* keyword objects and hands them to the formula, whose def binds them:    *)
(* positional parameters before the star, keyword-only parameters after    *)
(* it.  A call form is [pos, kw]: the positional objects and the objects   *)
(* given by keyword.                                                       *)
(***************************************************************************)
\* The defs without the * in their parameter lists.
SignatureNoStar(f) ==
    CASE f = "Rs.vazquez" ->
           [order |-> <<"P", "T", "gamma_gas", "gamma_api", "Pb", "P_sp", "T_sp">>,
            npos |-> 7, defaults |-> [P_sp |-> 0, T_sp |-> 0]]
      [] f = "mu_o.mu_oil" ->
           [order |-> <<"P", "T", "gamma_api", "Rs", "Pb", "model_uod", "model_uob", "model_uo">>,
            npos |-> 8,
            defaults |-> [model_uod |-> "Karto", model_uob |-> "Karto", model_uo |-> "Karto"]]
      [] f = "c_w.osif" ->
           [order |-> <<"P", "T", "S">>, npos |-> 3, defaults |-> [S |-> 10000]]

\* The parameters of the defs in their order, the number of them before
\* the *, and the defaults.
Signature(f) ==
    CASE f = "Rs.vazquez" ->
           [order |-> <<"P", "T", "gamma_gas", "gamma_api", "Pb", "P_sp", "T_sp">>,
            npos |-> 4, defaults |-> [P_sp |-> 0, T_sp |-> 0]]
      [] f = "mu_o.mu_oil" ->
           [order |-> <<"P", "T", "gamma_api", "Rs", "Pb", "model_uod", "model_uob", "model_uo">>,
            npos |-> 4,
            defaults |-> [model_uod |-> "Karto", model_uob |-> "Karto", model_uo |-> "Karto"]]
      [] f = "c_w.osif" ->
           [order |-> <<"P", "T", "S">>, npos |-> 2, defaults |-> [S |-> 10000]]

Range(s) == {s[i] : i \in DOMAIN s}

\* Python's binding of a call form to the def: TypeError for more
\* positional objects than parameters before the *, for an unknown or
\* doubly given name, and for a parameter without default that is left
\* out; otherwise the objects by parameter name, defaults for what is left
\* out.
Bind(sig, form) ==
    IF Len(form.pos) > sig.npos THEN Raised("TypeError")
    ELSE LET given == {sig.order[i] : i \in 1..Len(form.pos)} IN
         IF \/ \E n \in DOMAIN form.kw : n \notin Range(sig.order) \/ n \in given
            \/ \E n \in Range(sig.order) \ DOMAIN sig.defaults :
                   n \notin given /\ n \notin DOMAIN form.kw
         THEN Raised("TypeError")
         ELSE Returned(
             [n \in Range(sig.order) |->
                 IF n \in given
                 THEN form.pos[CHOOSE i \in 1..Len(form.pos) : sig.order[i] = n]
                 ELSE IF n \in DOMAIN form.kw THEN form.kw[n]
                 ELSE Scalar(sig.defaults[n])])

\* Some object of the call form has size 0.
FormHasEmpty(form) ==
    \/ \E i \in DOMAIN form.pos : Size(form.pos[i]) = 0
    \/ \E n \in DOMAIN form.kw : Size(form.kw[n]) = 0

\* The wrapper called with a call form: numpy refuses a size-0 object, then
\* the probe calls the formula, whose def binds the objects or raises.
VecEnterForm ==
    /\ pc = "call"
    /\ Wrapped(fn)
    /\ DOMAIN args = {"pos", "kw"}
    /\ LET b == Bind(Signature(fn), args) IN
       IF FormHasEmpty(args)
       THEN /\ pc' = "raised"
            /\ exc' = "ValueError"
            /\ UNCHANGED <<idx, args>>
       ELSE IF b.exc # "none"
       THEN /\ pc' = "raised"
            /\ exc' = b.exc
            /\ UNCHANGED <<idx, args>>
       ELSE /\ pc' = "probe"
            /\ idx' = 0
            /\ args' = b.val
            /\ UNCHANGED exc
    /\ UNCHANGED <<fn, args0, kept, loc, out>>

\* The keys of the three stage tables of mu_oil
mu_od == {"Beal", "Beggs", "Glaso", "Egbogad", "Karto"}
mu_ob == {"Beggs", "Karto", "Chew"}
mu_o == {"Beal", "Karto", "Vazquez"}

\* mu_oil with the model 'Karto' taken for a key that is not in its table
mu_oil_default(P, T, gamma_api, Rs, Pb, model_uod, model_uob, model_uo) ==
    Returned(
        [mu_o |-> IF model_uo \in mu_o THEN model_uo ELSE "Karto", P |-> P, Pb |-> Pb,
         mu_ob |-> [mu_ob |-> IF model_uob \in mu_ob THEN model_uob ELSE "Karto",
                    Rs |-> Rs,
                    mu_od |-> [mu_od |-> IF model_uod \in mu_od THEN model_uod ELSE "Karto",
                               T |-> T, gamma_api |-> gamma_api]]])

\* mu_od, mu_ob and mu_o of the chosen models, one after the other.  Each
\* stage runs only if its model is a key of its table and binds its local
\* (a sequence of one value, empty while unbound); reading a local that is
\* not bound, in the next stage or in the return, is an UnboundLocalError.
mu_oil(P, T, gamma_api, Rs, Pb, model_uod, model_uob, model_uo) ==
    LET mu_od_value == IF model_uod \in mu_od
                       THEN <<[mu_od |-> model_uod, T |-> T, gamma_api |-> gamma_api]>>
                       ELSE <<>>
        mu_ob_value == IF model_uob \in mu_ob /\ Len(mu_od_value) = 1
                       THEN <<[mu_ob |-> model_uob, Rs |-> Rs, mu_od |-> mu_od_value[1]]>>
                       ELSE <<>>
        mu_o_value == IF model_uo \in mu_o /\ Len(mu_ob_value) = 1
                      THEN <<[mu_o |-> model_uo, P |-> P, Pb |-> Pb,
                              mu_ob |-> mu_ob_value[1]]>>
                      ELSE <<>>
    IN  IF \/ model_uob \in mu_ob /\ Len(mu_od_value) = 0
           \/ model_uo \in mu_o /\ Len(mu_ob_value) = 0
           \/ Len(mu_o_value) = 0
        THEN Raised("UnboundLocalError")
        ELSE Returned(mu_o_value[1])

PVal(P) == [ln |-> LnP(P), factors |-> <<>>]

BindP == {1000, 2000}

\* A pressure object: a number or an array, as values or by logarithm.
PObjects(f) ==
    IF f = "Rs.vazquez"
    THEN {Array(a) : a \in ArraysUpTo({PVal(x) : x \in BindP}, MaxLen)}
           \cup {Scalar(PVal(x)) : x \in BindP}
    ELSE {Array(a) : a \in ArraysUpTo(BindP, MaxLen)} \cup {Scalar(x) : x \in BindP}

\* The call forms: with and without the optional keywords, without the
\* required one, and with a keyword-only object given by position.
Forms(f, P) ==
    CASE f = "Rs.vazquez" ->
           LET p == <<P, Scalar(660), Scalar(80), Scalar(30)>>
               Pb == Scalar(PVal(2000))
           IN  {[pos |-> p, kw |-> [Pb |-> Pb]],
                [pos |-> p, kw |-> [Pb |-> Pb, P_sp |-> Scalar(100), T_sp |-> Scalar(520)]],
                [pos |-> p, kw |-> [P_sp |-> Scalar(100), T_sp |-> Scalar(520)]],
                [pos |-> p, kw |-> <<>>],
                [pos |-> p \o <<Pb>>, kw |-> <<>>],
                [pos |-> p \o <<Pb, Scalar(100), Scalar(520)>>, kw |-> <<>>]}
      [] f = "mu_o.mu_oil" ->
           LET p == <<P, Scalar(660), Scalar(30), Scalar(500)>>
           IN  {[pos |-> p, kw |-> [Pb |-> Scalar(2000)]],
                [pos |-> p, kw |-> [Pb |-> Scalar(2000), model_uo |-> Scalar("Beal")]],
                [pos |-> p, kw |-> [Pb |-> Scalar(2000), model_uod |-> Scalar("Glaso"),
                                    model_uob |-> Scalar("Chew"),
                                    model_uo |-> Scalar("Vazquez")]],
                [pos |-> p, kw |-> [Pb |-> Scalar(2000), model_uod |-> Scalar("Standing")]],
                [pos |-> p, kw |-> [Pb |-> Scalar(2000), model_uob |-> Scalar("Beal")]],
                [pos |-> p, kw |-> [Pb |-> Scalar(2000), model_uo |-> Scalar("Chew")]],
                [pos |-> p, kw |-> [Pb |-> Scalar(2000), model_uod |-> Scalar("karto"),
                                    model_uob |-> Scalar("Vazquez")]],
                [pos |-> p, kw |-> <<>>],
                [pos |-> p \o <<Scalar(2000)>>, kw |-> <<>>]}
      [] f = "c_w.osif" ->
           LET p == <<P, Scalar(660)>>
           IN  {[pos |-> p, kw |-> <<>>],
                [pos |-> p, kw |-> [S |-> Scalar(30000)]],
                [pos |-> p \o <<Scalar(30000)>>, kw |-> <<>>]}

InitBind ==
    /\ pc = "call"
    /\ fn \in {"Rs.vazquez", "mu_o.mu_oil", "c_w.osif"}
    /\ \E P \in PObjects(fn) : args \in Forms(fn, P)
    /\ args0 = args
    /\ kept = <<>>
    /\ idx = 0
    /\ loc = NoLocals
    /\ out = <<>>
    /\ exc = "none"

MuOilCall ==
    /\ Running
    /\ fn = "mu_o.mu_oil"
    /\ Deliver(mu_oil(Cur("P"), Cur("T"), Cur("gamma_api"), Cur("Rs"),
                      Cur("Pb"), Cur("model_uod"), Cur("model_uob"),
                      Cur("model_uo")))
    /\ UNCHANGED <<fn, args, args0, kept, loc>>

NextBind == VecEnterForm \/ RsVazquezCall \/ MuOilCall \/ OsifCall

SpecBind == InitBind /\ [][NextBind]_vars

(***************************************************************************)
(* hall_yarborough evaluated.                                              *)
(*                                                                         *)
(* The doubles of the code are carried as integers in units of 1e-8 (Fx    *)
(* is 1.0); C and C*D, which exceed the range of that unit, in units of    *)
(* 1e-6.  Every operation rounds toward minus infinity at its unit, so a   *)
(* residual computed here lies within 1e-6 of the double the code          *)
(* computes for the same iterate.  An invocation is run with its           *)
(* residuals shifted by each member of HyErr, which spans that distance.   *)
(***************************************************************************)
Fx == 10000 * 10000

Abs(x) == IF x < 0 THEN 0 - x ELSE x

\* a*b/L^2 for three-limb operands in base L
LimbMul(a, b, L) ==
    LET x == Abs(a)
        y == Abs(b)
        x2 == x \div (L * L)
        x1 == (x \div L) % L
        x0 == x % L
        y2 == y \div (L * L)
        y1 == (y \div L) % L
        y0 == y % L
        m == x2 * y2 * L * L + (x2 * y1 + x1 * y2) * L
             + (x2 * y0 + x1 * y1 + x0 * y2)
             + (x1 * y0 + x0 * y1 + (x0 * y0) \div L) \div L
    IN  IF (a < 0) = (b < 0) THEN m ELSE 0 - m

\* a*b, both in units of 1e-8 (or a in any unit and the product in it)
FxMul(a, b) == LimbMul(a, b, 10000)

\* c*x for c in units of 1e-6, the product in the unit of x
CoefMul(c, x) == LimbMul(c, x, 1000)

RECURSIVE Frac(_, _, _, _)
Frac(r, b, n, acc) ==
    IF n = 0 THEN acc
    ELSE Frac((r * 10) % b, b, n - 1, acc * 10 + (r * 10) \div b)

\* a/b in units of 1e-8, a and b in one unit
RECURSIVE FxDiv(_, _)
FxDiv(a, b) ==
    IF b < 0 THEN FxDiv(0 - a, 0 - b)
    ELSE IF b > 200000000 THEN FxDiv(a \div 10, b \div 10)
    ELSE (a \div b) * Fx + Frac(a % b, b, 8, 0)

\* a**n for a literal n
RECURSIVE FxPowInt(_, _)
FxPowInt(a, n) == IF n = 0 THEN Fx ELSE FxMul(a, FxPowInt(a, n - 1))

\* m = mk[1] * 2**mk[2] with mk[1] in [1, 2)
RECURSIVE LnMant(_, _)
LnMant(m, k) ==
    IF m < Fx THEN LnMant(m * 2, k - 1)
    ELSE IF m >= 2 * Fx THEN LnMant(m \div 2, k + 1)
    ELSE <<m, k>>

\* ln y for y > 0: 2*atanh((m - 1)/(m + 1)) + k*ln 2, the series to u**13
FxLn(y) ==
    LET mk == LnMant(y, 0)
        u == FxDiv(mk[1] - Fx, mk[1] + Fx)
        w == FxMul(u, u)
        h13 == Fx \div 13
        h11 == Fx \div 11 + FxMul(w, h13)
        h9 == Fx \div 9 + FxMul(w, h11)
        h7 == Fx \div 7 + FxMul(w, h9)
        h5 == Fx \div 5 + FxMul(w, h7)
        h3 == Fx \div 3 + FxMul(w, h5)
        h1 == Fx + FxMul(w, h3)
    IN  2 * FxMul(u, h1) + mk[2] * 69314718

RECURSIVE ExpSeries(_, _)
ExpSeries(r, d) ==
    IF d > 12 THEN Fx ELSE Fx + FxMul(r, ExpSeries(r, d + 1)) \div d

\* np.exp(x) for x below 1.0: exp(r) * 2**k with x = k*ln 2 + r
FxExp(x) ==
    LET k == x \div 69314718
        r == x % 69314718
    IN  IF k < 0 - 30 THEN 0
        ELSE IF k <= 0 THEN ExpSeries(r, 1) \div (2 ^ (0 - k))
        ELSE ExpSeries(r, 1) * (2 ^ k)

\* y**D for y >= 0 and a positive D: the whole power times exp(frac*ln y)
FxPow(y, D) ==
    IF y = 0 THEN 0
    ELSE FxMul(FxPowInt(y, D \div Fx), FxExp(FxMul(D % Fx, FxLn(y))))

\* The lines before the loop.  e is exp(-1.2*(1 - t)**2).
HyCoef(P, T, Ppc, Tpc) ==
    LET P_pr == FxDiv(P, Ppc)
        T_pr == FxDiv(T, Tpc)
        t == FxDiv(Fx, T_pr)
        e == FxExp(0 - FxMul(120000000, FxPowInt(Fx - t, 2)))
    IN  [P_pr |-> P_pr, T_pr |-> T_pr, t |-> t, e |-> e,
         A |-> FxMul(FxMul(6123000, t), e),
         B |-> FxMul(1476000000, t) - FxMul(976000000, FxPowInt(t, 2))
               + FxMul(485000000, FxPowInt(t, 3)),
         C |-> FxMul(90700000, t) - FxMul(242200000, FxPowInt(t, 2))
               + FxMul(42400000, FxPowInt(t, 3)),
         D |-> 218000000 + FxMul(282000000, t)]

\* F1
HyResidual(y1, k) ==
    0 - FxMul(k.A, k.P_pr)
    + FxDiv(y1 + FxPowInt(y1, 2) + FxPowInt(y1, 3) - FxPowInt(y1, 4),
            FxPowInt(Fx - y1, 3))
    - FxMul(k.B, FxPowInt(y1, 2))
    + CoefMul(k.C, FxPow(y1, k.D))

\* dF
HySlope(y1, k) ==
    FxDiv(Fx + 4 * y1 + 4 * FxPowInt(y1, 2) - 4 * FxPowInt(y1, 3)
          + FxPowInt(y1, 4), FxPowInt(Fx - y1, 4))
    - 2 * FxMul(k.B, y1)
    + CoefMul(FxMul(k.C, k.D), FxPow(y1, k.D - Fx))

\* The update with the sign of the step reversed.
HyNewtonReversed(y1, F1, dF) == y1 + FxDiv(F1, dF)

\* y1_new = y1 - F1 / dF
HyNewton(y1, F1, dF) == y1 - FxDiv(F1, dF)

\* 1e-5
tolerance == 1000

\* Iterates at which numpy gives nan or inf for F1: a negative base of the
\* power D, and y1 = 1 in the denominators.
HyNotANumber(y1) == y1 < 0 \/ y1 = Fx

HyLocals(e) ==
    [stage |-> "loop", y1 |-> 1000, F1 |-> 0, iteration |-> 0, nan |-> FALSE,
     err |-> e]

\* One pass of the loop body.  A nan stays a nan and passes no test.
HyPass(l, k) ==
    IF l.nan \/ HyNotANumber(l.y1)
    THEN [l EXCEPT !.nan = TRUE, !.iteration = l.iteration + 1]
    ELSE LET F1 == HyResidual(l.y1, k) + l.err
             small == Abs(F1) < tolerance
         IN  [l EXCEPT !.F1 = F1,
                       !.y1 = HyNewton(l.y1, F1, HySlope(l.y1, k)),
                       !.stage = IF small THEN "exit" ELSE "loop",
                       !.iteration = IF small THEN l.iteration
                                     ELSE l.iteration + 1]

\* z = (0.06125 * P_pr * t * np.exp(-1.2 * ((1 - t) ** 2))) / y1
HyValue(l, k) ==
    IF l.nan \/ l.y1 = 0
    THEN [z |-> 0, nan |-> TRUE]
    ELSE [z |-> FxDiv(FxMul(FxMul(FxMul(6125000, k.P_pr), k.t), k.e), l.y1),
          nan |-> FALSE]

HyErr == {0 - 100, 0, 100}
HyP == {340, 680, 1360}
HyT == {729, 972}
HyPpc == {680}
HyTpc == {486}

HyCur == HyCoef(Cur("P"), Cur("T"), Cur("Ppc"), Cur("Tpc"))

InitHy ==
    /\ pc = "call"
    /\ fn = "z_g.hall_yarborough"
    /\ \E P \in ArraysUpTo(HyP, MaxLen), T \in HyT, Ppc \in HyPpc,
          Tpc \in HyTpc :
          args = [P |-> Array(P), T |-> Scalar(T), Ppc |-> Scalar(Ppc),
                  Tpc |-> Scalar(Tpc)]
    /\ args0 = args
    /\ kept = <<>>
    /\ idx = 0
    /\ loc = NoLocals
    /\ out = <<>>
    /\ exc = "none"

HyEnter ==
    /\ Running
    /\ loc.stage = "none"
    /\ \E e \in HyErr : loc' = HyLocals(e)
    /\ UNCHANGED <<pc, fn, args, args0, kept, idx, out, exc>>

HyIterate ==
    /\ Running
    /\ loc.stage = "loop"
    /\ loc' = IF LoopTest(loc)
              THEN HyPass(loc, HyCur)
              ELSE [loc EXCEPT !.stage = "exit"]
    /\ UNCHANGED <<pc, fn, args, args0, kept, idx, out, exc>>

\* The frame is gone after the return.
HyReturn ==
    /\ Running
    /\ loc.stage = "exit"
    /\ Deliver(Returned(HyValue(loc, HyCur)))
    /\ loc' = NoLocals
    /\ UNCHANGED <<fn, args, args0, kept>>

NextHy == VecEnter \/ HyEnter \/ HyIterate \/ HyReturn

SpecHy == InitHy /\ [][NextHy]_vars

(***************************************************************************)
(* oil_density.rho_o_basic.  Densities in units of 1e-5 lb/ft^3, Bo in     *)
(* units of 1e-4, co in units of 1e-7 psia^-1, gamma_oil and gamma_gd in   *)
(* units of 1e-8.                                                          *)
(***************************************************************************)
\* rho_ob = ((350*gamma_oil) + (0.0764*gamma_gd*Rs)) / (5.615*Bo)
rho_ob(Bo, Rs, gamma_api) ==
    LET gamma_oil == FxDiv(1415, 10 * gamma_api + 1315)
        gamma_gd == FxDiv(125 + 10 * gamma_api, 500)
                    - (35715 * gamma_api * Rs) \div 100
    IN  MulDiv(MulDiv(gamma_oil, 350, 1000)
               + MulDiv(MulDiv(gamma_gd, 764, 10000), Rs, 1000),
               10000, (5615 * Bo) \div 1000)

\* round(rho_ob * exp(co*(Pb-P)), 5) over the bubble point, round(rho_ob, 5)
\* at and under it
rho_o_basic(P, Pb, Bo, Rs, gamma_api, co) ==
    IF P > Pb
    THEN FxMul(rho_ob(Bo, Rs, gamma_api), FxExp(10 * co * (Pb - P)))
    ELSE rho_ob(Bo, Rs, gamma_api)

RhoP == {1000, 2000, 3000}
RhoPb == {1500, 2000}
RhoBo == {12000}
RhoRs == {500}
RhoApi == {30, 40}
RhoCo == {100, 150}

InitRho ==
    /\ pc = "call"
    /\ fn = "rho_o.rho_o_basic"
    /\ \E P \in ArraysUpTo(RhoP, MaxLen), Pb \in RhoPb, Bo \in RhoBo,
          Rs \in RhoRs, gamma_api \in RhoApi, co \in RhoCo :
          args = [P |-> Array(P), Pb |-> Scalar(Pb), Bo |-> Scalar(Bo),
                  Rs |-> Scalar(Rs), gamma_api |-> Scalar(gamma_api),
                  co |-> Scalar(co)]
    /\ args0 = args
    /\ kept = <<>>
    /\ idx = 0
    /\ loc = NoLocals
    /\ out = <<>>
    /\ exc = "none"

RhoBasicCall ==
    /\ Running
    /\ fn = "rho_o.rho_o_basic"
    /\ Deliver(Returned(rho_o_basic(Cur("P"), Cur("Pb"), Cur("Bo"), Cur("Rs"),
                                    Cur("gamma_api"), Cur("co"))))
    /\ UNCHANGED <<fn, args, args0, kept, loc>>

NextRho == VecEnter \/ RhoBasicCall

SpecRho == InitRho /\ [][NextRho]_vars

(***************************************************************************)
(* total_volumetric_factor.factor_total.  Bo and Bt in units of 1e-4       *)
(* RB/STB, Bg in units of 1e-6 RB/PCN.                                     *)
(***************************************************************************)
\* Bt = Bo + ((Rsi-Rs)*Bg)
factor_total(Bo, Bg, Rsi, Rs) == Bo + ((Rsi - Rs) * Bg) \div 100

BtBo == {12000, 13000}
BtBg == {1000, 2000}
BtRsi == {600, 800}
BtRs == {400, 500, 600}

InitBt ==
    /\ pc = "call"
    /\ fn = "Bt.factor_total"
    /\ \E Bo \in ArraysUpTo(BtBo, MaxLen), Bg \in BtBg, Rsi \in BtRsi,
          Rs \in BtRs :
          args = [Bo |-> Array(Bo), Bg |-> Scalar(Bg), Rsi |-> Scalar(Rsi),
                  Rs |-> Scalar(Rs)]
    /\ args0 = args
    /\ kept = <<>>
    /\ idx = 0
    /\ loc = NoLocals
    /\ out = <<>>
    /\ exc = "none"

FactorTotalCall ==
    /\ Running
    /\ fn = "Bt.factor_total"
    /\ Deliver(Returned(factor_total(Cur("Bo"), Cur("Bg"), Cur("Rsi"),
                                     Cur("Rs"))))
    /\ UNCHANGED <<fn, args, args0, kept, loc>>

NextBt == VecEnter \/ FactorTotalCall

SpecBt == InitBt /\ [][NextBt]_vars

(***************************************************************************)
(* pseudocritical_properties_gas: brown_katz, brown_katz_grv and           *)
(* brown_katz_df.  Gravities and mole fractions are in units of 1e-2, the  *)
(* hydrocarbon gravity in units of 1e-8, pressures and temperatures in     *)
(* units of 1e-5 (the unit round(x, 5) keeps).  What the functions read    *)
(* with input() is chosen when they are called and kept in loc.            *)
(***************************************************************************)
\* c0 + c1*g + c2*(g**2), c1 and c2 in units of 1e-3
Quadratic(c0, c1, c2, g) ==
    100000 * c0 + CoefMul(c1, g) + CoefMul(c2, FxPowInt(g, 2))

\* 706 - 51.7*g - 11.1*g**2 and 187 + 330*g - 71.5*g**2
Set706(g) ==
    [Ppc |-> Quadratic(706, 0 - 51700, 0 - 11100, g),
     Tpc |-> Quadratic(187, 330000, 0 - 71500, g)]

\* 677 + 15*g - 37.5*g**2 and 168 + 325*g - 12.5*g**2
Set677(g) ==
    [Ppc |-> Quadratic(677, 15000, 0 - 37500, g),
     Tpc |-> Quadratic(168, 325000, 0 - 12500, g)]

\* (gamma_gas - 0.967*yN2 - 1.52*yCO2 - 1.18*yH2S) / (1 - yN2 - yCO2 - yH2S)
HydrocarbonGravity(gamma_gas, y) ==
    FxDiv(1000 * gamma_gas - 967 * y.N2 - 1520 * y.CO2 - 1180 * y.H2S,
          1000 * (100 - y.N2 - y.CO2 - y.H2S))

\* (1 - yN2 - yCO2 - yH2S)*hc + a*yN2 + b*yCO2 + c*yH2S
Mixed(hc, y, a, b, c) ==
    MulDiv(hc, 100 - y.N2 - y.CO2 - y.H2S, 100)
    + 1000 * (a * y.N2 + b * y.CO2 + c * y.H2S)

\* str.upper() of the answer
Upper(s) == IF s = "y" THEN "Y" ELSE IF s = "n" THEN "N" ELSE s

\* The hydrocarbon values of brown_katz and brown_katz_df for the answer
\* to 'Is the type of gas Condensed Gas? [Y/N]'.
brown_katz_hc(type_gas, g) == IF Upper(type_gas) = "Y" THEN Set706(g) ELSE Set677(g)

\* The hydrocarbon values of brown_katz_grv.
brown_katz_grv_hc(type_gas, g) == IF type_gas = TRUE THEN Set677(g) ELSE Set706(g)

\* {'Ppc=': Ppc_gas, 'Tpc=': Tpc_gas}
brown_katz(gamma_gas, y, type_gas) ==
    LET hc == brown_katz_hc(type_gas, HydrocarbonGravity(gamma_gas, y))
    IN  [Ppc |-> Mixed(hc.Ppc, y, 493, 1071, 1306),
         Tpc |-> Mixed(hc.Tpc, y, 227, 548, 672)]

\* [Ppc_gas_c, Tpc_gas_c] with an impurity, [Ppc_gas, Tpc_gas] without
brown_katz_grv(gamma_gas, yCO2, yH2S, yN2, type_gas) ==
    LET y == [N2 |-> yN2, CO2 |-> yCO2, H2S |-> yH2S]
        hc == brown_katz_grv_hc(type_gas, HydrocarbonGravity(gamma_gas, y))
    IN  IF yCO2 # 0 \/ yH2S # 0 \/ yN2 # 0
        THEN <<Mixed(hc.Ppc, y, 493, 1071, 1306),
               Mixed(hc.Tpc, y, 227, 548, 672)>>
        ELSE <<hc.Ppc, hc.Tpc>>

BkGamma == {60, 70, 80}
BkFraction == {0, 5}
BkImpurities == [N2 : BkFraction, CO2 : BkFraction, H2S : BkFraction]
BkAnswers == {"Y", "y", "N"}

InitBk ==
    /\ pc = "call"
    /\ \/ /\ fn = "pc_g.brown_katz"
          /\ \E g \in BkGamma : args = [gamma_gas |-> Scalar(g)]
       \/ /\ fn = "pc_g.brown_katz_df"
          /\ \E g \in BkGamma, y \in BkImpurities :
                args = [df_data |-> Scalar(y), gamma_gas |-> Scalar(g)]
       \/ /\ fn = "pc_g.brown_katz_grv"
          /\ \E g \in BkGamma, y \in BkImpurities, c \in BOOLEAN :
                args = [gamma_gas |-> Scalar(g), yCO2 |-> Scalar(y.CO2),
                        yH2S |-> Scalar(y.H2S), yN2 |-> Scalar(y.N2),
                        type_gas |-> Scalar(c)]
    /\ args0 = args
    /\ kept = <<>>
    /\ idx = 0
    /\ loc = NoLocals
    /\ out = <<>>
    /\ exc = "none"

BrownKatzCall ==
    /\ pc = "call"
    /\ fn = "pc_g.brown_katz"
    /\ \E y \in BkImpurities, a \in BkAnswers :
          /\ loc' = [stage |-> "dead", y_impurities |-> y, type_gas |-> Upper(a)]
          /\ out' = <<brown_katz(Elem(args.gamma_gas, 1), y, a)>>
    /\ pc' = "returned"
    /\ UNCHANGED <<fn, args, args0, kept, idx, exc>>

BrownKatzDfCall ==
    /\ pc = "call"
    /\ fn = "pc_g.brown_katz_df"
    /\ \E a \in BkAnswers :
          /\ loc' = [stage |-> "dead", y_impurities |-> Elem(args.df_data, 1),
                     type_gas |-> Upper(a)]
          /\ out' = <<brown_katz(Elem(args.gamma_gas, 1),
                                 Elem(args.df_data, 1), a)>>
    /\ pc' = "returned"
    /\ UNCHANGED <<fn, args, args0, kept, idx, exc>>

BrownKatzGrvCall ==
    /\ pc = "call"
    /\ fn = "pc_g.brown_katz_grv"
    /\ out' = <<brown_katz_grv(Elem(args.gamma_gas, 1), Elem(args.yCO2, 1),
                               Elem(args.yH2S, 1), Elem(args.yN2, 1),
                               Elem(args.type_gas, 1))>>
    /\ pc' = "returned"
    /\ UNCHANGED <<fn, args, args0, kept, idx, loc, exc>>

NextBk == BrownKatzCall \/ BrownKatzDfCall \/ BrownKatzGrvCall

SpecBk == InitBk /\ [][NextBk]_vars

(***************************************************************************)
(* solution_gas_oil_ratio: standing, lasater and vazquez called with a     *)
(* pressure and a bubble pressure of the caller's choice.                  *)
(***************************************************************************)
\* Rs = gamma_gas*(((P/18.2)+1.4)*10**(0.0125*gamma_api-0.00091*(T-460)))**1.2048
\* with P = Pb when P >= Pb
Rs_standing(P, T, gamma_gas, gamma_api, Pb) ==
    LET Pu == IF P >= Pb THEN Pb ELSE P
    IN  [expr |-> "gamma_gas*(((P/18.2)+1.4)*10**(0.0125*gamma_api-0.00091*(T-460)))**1.2048",
         P |-> Pu, T |-> T - 460, gamma_gas |-> gamma_gas, gamma_api |-> gamma_api]

\* y_gas of lasater at the pressure P: the logarithm below Pf = 3.29, the
\* power from there on (gamma_gas in hundredths)
y_gas(P, T, gamma_gas) ==
    IF P * gamma_gas < 329 * T
    THEN [expr |-> "0.359*log(((1.473*P*gamma_gas)/T)+0.476)",
          P |-> P, T |-> T, gamma_gas |-> gamma_gas]
    ELSE [expr |-> "(((0.121*P*gamma_gas)/T)-0.236)**0.281",
          P |-> P, T |-> T, gamma_gas |-> gamma_gas]

m_oil(gamma_api) ==
    IF gamma_api <= 40
    THEN [expr |-> "630-(10*gamma_api)", gamma_api |-> gamma_api]
    ELSE [expr |-> "73110/(gamma_api**1.562)", gamma_api |-> gamma_api]

\* lasater with the pressure P in both of its uses
Rs_lasater_at_P(P, T, gamma_gas, gamma_api, Pb) ==
    [expr |-> "(132755*gamma_oil*y_gas)/(m_oil*(1-y_gas))",
     gamma_oil |-> [expr |-> "141.5/(gamma_api+131.5)", gamma_api |-> gamma_api],
     y_gas |-> y_gas(P, T, gamma_gas), m_oil |-> m_oil(gamma_api)]

\* Rs = (132755*gamma_oil*y_gas)/(m_oil*(1-y_gas)); P = Pb when P >= Pb and
\* Pb = P when P < Pb, Pf being taken from Pb and y_gas from P
Rs_lasater(P, T, gamma_gas, gamma_api, Pb) ==
    LET Pu == IF P >= Pb THEN Pb ELSE P
        Pbu == IF P >= Pb THEN Pb ELSE P
        y == IF Pbu * gamma_gas < 329 * T
             THEN [expr |-> "0.359*log(((1.473*P*gamma_gas)/T)+0.476)",
                   P |-> Pu, T |-> T, gamma_gas |-> gamma_gas]
             ELSE [expr |-> "(((0.121*P*gamma_gas)/T)-0.236)**0.281",
                   P |-> Pu, T |-> T, gamma_gas |-> gamma_gas]
    IN  [expr |-> "(132755*gamma_oil*y_gas)/(m_oil*(1-y_gas))",
         gamma_oil |-> [expr |-> "141.5/(gamma_api+131.5)", gamma_api |-> gamma_api],
         y_gas |-> y, m_oil |-> m_oil(gamma_api)]

RsP == {1000, 2000, 3000}
RsApi == {25, 35, 45}
RsFns == {"Rs.standing", "Rs.lasater", "Rs.vazquez"}

InitRs ==
    /\ pc = "call"
    /\ fn \in RsFns
    /\ \E P \in ArraysUpTo(RsP, MaxLen) \cup {<<>>}, sc \in BOOLEAN, Pb \in RsP,
          T \in PbT, g \in PbGamma, api \in RsApi, sp \in PbSep :
          /\ sc => Len(P) = 1
          /\ fn # "Rs.vazquez" => sp = <<0, 0>>
          /\ LET val(p) == IF fn = "Rs.vazquez" THEN PVal(p) ELSE p
                 Ps == [i \in DOMAIN P |-> val(P[i])]
             IN  args = [P |-> IF sc THEN Scalar(Ps[1]) ELSE Array(Ps),
                         T |-> Scalar(T), gamma_gas |-> Scalar(g),
                         gamma_api |-> Scalar(api), Pb |-> Scalar(val(Pb)),
                         P_sp |-> Scalar(sp[1]), T_sp |-> Scalar(sp[2])]
    /\ args0 = args
    /\ kept = <<>>
    /\ idx = 0
    /\ loc = NoLocals
    /\ out = <<>>
    /\ exc = "none"

RsStandingCall ==
    /\ Running
    /\ fn = "Rs.standing"
    /\ Deliver(Returned(Rs_standing(Cur("P"), Cur("T"), Cur("gamma_gas"),
                                    Cur("gamma_api"), Cur("Pb"))))
    /\ UNCHANGED <<fn, args, args0, kept, loc>>

RsLasaterCall ==
    /\ Running
    /\ fn = "Rs.lasater"
    /\ Deliver(Returned(Rs_lasater(Cur("P"), Cur("T"), Cur("gamma_gas"),
                                   Cur("gamma_api"), Cur("Pb"))))
    /\ UNCHANGED <<fn, args, args0, kept, loc>>

NextRs ==
    \/ VecEnter
    \/ RsStandingCall
    \/ RsLasaterCall
    \/ RsVazquezCall

SpecRs == InitRs /\ [][NextRs]_vars

(***************************************************************************)
(* Claims                                                                  *)
(***************************************************************************)
\* C2: a Gopal call never gets past an element that lies in no band
\* (P_pr < 0.2, P_pr > 15, T_pr < 1.05 or T_pr > 3.0): once such an element
\* has been evaluated, by either Gopal function, the call has raised and
\* holds no result.
OutsideBands(P, T, Ppc, Tpc) ==
    \/ 100 * P < 20 * Ppc
    \/ 100 * P > 1500 * Ppc
    \/ 100 * T < 105 * Tpc
    \/ 100 * T > 300 * Tpc

Evaluated(i) ==
    \/ pc = "returned"
    \/ pc = "elem" /\ (i < idx \/ i = 1)
    \/ pc = "raised" /\ exc # "ValueError" /\ i = Pos

ElemOutside(i) ==
    OutsideBands(Elem(args.P, i), Elem(args.T, i), Elem(args.Ppc, i), Elem(args.Tpc, i))

C2_OutOfBandRaises ==
    fn \in {"z_g.gopal", "c_g.gopal"} =>
        /\ \A i \in 1..BroadcastSize(args) :
               Evaluated(i) /\ ElemOutside(i) =>
                   pc = "raised" /\ exc = "UnboundLocalError" /\ out = <<>>
        /\ pc = "raised" => out = <<>> /\ exc # "none"

\* P_pr = 20 as the second element, after a first element inside the bands.
C2_Witness ==
    /\ fn = "c_g.gopal"
    /\ pc = "raised"
    /\ exc = "UnboundLocalError"
    /\ idx = 2
    /\ Cur("P") = 400
    /\ ~ElemOutside(1)

\* C7: in band 1x1 (0.2 <= P_pr <= 1.2 and 1.05 <= T_pr <= 1.2) the z-factor
\* gopal returns z = P_pr*((1.6643*T_pr) - 2.2114) - 0.3647*T_pr + 1.4385,
\* computed by sub-formula 1 and by no other.
InBand11(P, T, Ppc, Tpc) ==
    /\ 20 * Ppc <= 100 * P
    /\ 100 * P <= 120 * Ppc
    /\ 105 * Tpc <= 100 * T
    /\ 100 * T <= 120 * Tpc

C7_Band11Formula ==
    fn = "z_g.gopal" =>
        \A i \in 1..Len(out) :
            LET P == Elem(args.P, i)
                T == Elem(args.T, i)
                Ppc == Elem(args.Ppc, i)
                Tpc == Elem(args.Tpc, i)
            IN InBand11(P, T, Ppc, Tpc) =>
                   /\ out[i].form = 1
                   /\ out[i].den = 10000 * Ppc * Tpc
                   /\ out[i].num = P * (16643 * T - 22114 * Tpc)
                                     - 3647 * T * Ppc + 14385 * Ppc * Tpc

\* P_pr = 0.5 and T_pr = 1.1
C7_Witness ==
    /\ fn = "z_g.gopal"
    /\ pc = "returned"
    /\ Len(out) = 1
    /\ Elem(args.P, 1) = 10
    /\ Elem(args.T, 1) = 22
    /\ Elem(args.Ppc, 1) = 20
    /\ Elem(args.Tpc, 1) = 20

InSolver == loc.stage \in {"loop", "exit", "dead"}
LeftLoop == loc.stage \in {"exit", "dead"}

\* C3: hall_yarborough always leaves its loop: at most 1000 Newton updates;
\* it leaves either on abs(F1) < tolerance or with the counter at 1000; the
\* only exception of a call is the wrapper's, before any invocation; and an
\* input whose residual never passes gets z from the 1000th iterate.
C3_HallYarboroughLeavesLoop ==
    fn = "z_g.hall_yarborough" =>
        /\ InSolver => loc.updates <= 1000
        /\ LeftLoop =>
               \/ loc.F = "small" /\ loc.iteration < 1000
               \/ loc.F # "small" /\ loc.iteration = 1000 /\ loc.y.n = 1000
        /\ pc = "raised" => exc = "ValueError" /\ loc = NoLocals
        /\ \A i \in 1..Len(out) :
               Elem(args.P, i).conv = Never =>
                   out[i].at = [guess |-> 1, n |-> 1000]

C3_Witness ==
    /\ fn = "z_g.hall_yarborough"
    /\ pc = "returned"
    /\ Len(out) = 2
    /\ Elem(args.P, 2).conv = Never
    /\ loc.updates = 1000
    /\ loc.iteration = 1000

\* C4: dranchuk_abou_kassem and dranchuk_purvis_robinson start from z = 0.5,
\* make at most 1000 updates, leave the loop on abs(F) < tolerance (with the
\* update of that pass applied) or with the counter at 1000, and return a
\* value without raising when the budget is exhausted.
C4_DranchukLeavesLoop ==
    fn \in {"z_g.dranchuk_abou_kassem", "z_g.dranchuk_purvis_robinson"} =>
        /\ InSolver => loc.updates <= 1000 /\ loc.y.guess = 50000
        /\ loc.stage = "loop" /\ loc.updates = 0 => loc.y.n = 0
        /\ LeftLoop =>
               \/ loc.F = "small" /\ loc.iteration < 1000
               \/ loc.F # "small" /\ loc.iteration = 1000
        /\ pc = "raised" => exc = "ValueError" /\ loc = NoLocals
        /\ \A i \in 1..Len(out) :
               LET k == Elem(args.P, i).conv IN
               out[i].at = [guess |-> 50000,
                            n |-> IF k = Never \/ k >= 1000 THEN 1000 ELSE k + 1]

C4_Witness ==
    /\ fn = "z_g.dranchuk_purvis_robinson"
    /\ pc = "returned"
    /\ Len(out) = 1
    /\ Elem(args.P, 1).conv = Never
    /\ loc.iteration = 1000
    /\ out[1].at.n = 1000

\* C10: every invocation of a solver, the probe and every element of a
\* vectorized call included, enters its loop with the fixed guess
\* (y1 = 1e-5, z = 0.5) and iteration = 0 whatever ran before it, and equal
\* inputs give equal outputs.
C10_FixedInitialGuess ==
    fn \in Solvers =>
        /\ loc.stage = "loop" /\ loc.updates = 0 =>
               /\ loc.iteration = 0
               /\ loc.y = [guess |-> IF fn = "z_g.hall_yarborough" THEN 1 ELSE 50000,
                           n |-> 0]
        /\ \A i, j \in 1..Len(out) :
               Elem(args.P, i) = Elem(args.P, j) => out[i] = out[j]

\* The same input twice, after the probe has already run on it.
C10_Witness ==
    /\ fn = "z_g.dranchuk_abou_kassem"
    /\ pc = "returned"
    /\ Len(out) = 2
    /\ Elem(args.P, 1) = Elem(args.P, 2)
    /\ Elem(args.P, 1).conv = 3
    /\ out[1] = out[2]

\* C6: factor_oil called with P = Pb returns exactly the B_ob it was given,
\* for every bubble-point factor and every compressibility.
C6_FactorOilAtBubblePoint ==
    fn = "Bo.factor_oil" =>
        \A i \in 1..Len(out) :
            Elem(args.P, i) = Elem(args.Pb, i) => out[i] = Elem(args.B_ob, i)

\* An array whose second pressure is the bubble pressure and whose first is not.
C6_Witness ==
    /\ fn = "Bo.factor_oil"
    /\ pc = "returned"
    /\ Len(out) = 2
    /\ Elem(args.P, 2) = Elem(args.Pb, 2)
    /\ Elem(args.P, 1) = 3000
    /\ out[1] < Elem(args.B_ob, 1)
    /\ out[2] = Elem(args.B_ob, 2)

\* C1: a wrapped formula called with a 1-D array of any length n as P (the
\* other arguments scalars) returns n values, the i-th being the formula on
\* the i-th entries; called with scalars only it returns the formula's value.
\* Stated for factor_oil, which is total on its inputs.
C1_ArrayInArrayOut ==
    fn = "Bo.factor_oil" /\ pc \in {"returned", "raised"} =>
        /\ pc = "returned"
        /\ Len(out) = IF args.P.kind = "array" THEN Size(args.P) ELSE 1
        /\ \A i \in 1..Len(out) :
               out[i] = factor_oil(Elem(args.P, i), Elem(args.Pb, i),
                                   Elem(args.B_ob, i), Elem(args.co, i))

\* C5: Vazquez-Beggs inverse consistency.  With Pb the value returned by
\* bubble_pressure.vazquez_beggs(R_sb, gamma_gas, T, gamma_api) for numbers
\* R_sb, gamma_gas, T, gamma_api (the same separator inputs on both sides, no
\* impurity fractions), solution_gas_oil_ratio.vazquez(P=Pb, T, gamma_gas,
\* gamma_api, Pb=Pb) equals R_sb within 1e-6 relative: the logarithms differ
\* by at most 10 units of 1e-7 and the separator factors cancel.
RECURSIVE NetPower(_, _, _)
NetPower(f, t, k) ==
    IF k = 0 THEN <<0, 1>>
    ELSE LET r == NetPower(f, t, k - 1)
         IN  IF f[k].term = t
             THEN <<r[1] * f[k].pw[2] + f[k].pw[1] * r[2], r[2] * f[k].pw[2]>>
             ELSE r

FactorsCancel(f) == \A i \in DOMAIN f : NetPower(f, f[i].term, Len(f))[1] = 0

C5_VazquezBeggsInverse ==
    (/\ fn = "Rs.vazquez"
     /\ pc = "returned"
     /\ args.T.kind = "scalar"
     /\ ~Impure(kept[1])) =>
        LET d == out[1].ln - LnRsb(Elem(kept[1].R_sb, 1))
        IN  /\ d <= 10
            /\ 0 - d <= 10
            /\ FactorsCancel(out[1].factors)

\* C8: every formula of the gas, oil and water packages that is called,
\* other than the mixture functions, is wrapped by vectorize_decorator.
C8_EveryFormulaWrapped ==
    fn \notin Formulas("mixture") => Wrapped(fn)

\* C9: when a call has returned or raised, every argument object holds what
\* it held when the call was made.
C9_ArgumentsUnchanged ==
    pc \in {"returned", "raised"} /\ fn \notin Formulas("mixture") =>
        args = args0

\* C11: a call in which a denominator is exactly zero (z-factor brill_beggs
\* at T_pr = 0.86, a z-factor correlation with Ppc = 0, a gas
\* compressibility with z = 0) returns, with inf or nan as the result of the
\* element; it does not raise.
\* The formula has been called on the i-th elements (the probe aside).
ElemCalled(i) ==
    \/ pc = "returned"
    \/ pc = "elem" /\ i < idx
    \/ pc = "raised" /\ exc # "ValueError" /\ idx = i

ZeroDenominator(i) ==
    \/ Elem(args.Ppc, i) = 0
    \/ fn = "z_g.brill_beggs" /\ 100 * Elem(args.T, i) = 86 * Elem(args.Tpc, i)
    \/ fn = "c_g.papay" /\ (Elem(args.z, i) = 0 \/ Elem(args.P, i) = 0)

InFault == fn \in {"z_g.papay", "z_g.brill_beggs", "c_g.papay"}

C12_EveryApiGetsCoefficients ==
    (/\ fn \in {"Pb.total", "Rs.total"}
     /\ pc \in {"returned", "raised"}
     /\ BroadcastSize(args) > 0
     /\ Elem(args.gamma_api, 1) > 0) =>
        /\ pc = "returned"
        /\ \A i \in 1..Len(out) : out[i].set \in {1, 2, 3}

\* C13: the wrapped formula keeps the keyword-only parameters of its def.
\* A call that leaves out an optional keyword-only parameter returns, for
\* each element, what the formula gives with the default; a call that leaves
\* out the required Pb, or gives more positional objects than the def has
\* parameters before its *, is rejected: it raises and returns nothing.
BeforeStar(f) ==
    CASE f = "Rs.vazquez" -> 4 [] f = "mu_o.mu_oil" -> 4 [] f = "c_w.osif" -> 2

RequiredKeyword(f) == IF f = "c_w.osif" THEN {} ELSE {"Pb"}

\* The i-th element of the object given by keyword as n, or the default d.
KwOr(n, d, i) == IF n \in DOMAIN args0.kw THEN Elem(args0.kw[n], i) ELSE d

Unwrapped(i) ==
    LET p == args0.pos IN
    CASE fn = "Rs.vazquez" ->
           Rs_vazquez(Elem(p[1], i), Elem(p[2], i), Elem(p[3], i), Elem(p[4], i),
                      Elem(args0.kw.Pb, i), KwOr("P_sp", 0, i), KwOr("T_sp", 0, i))
      [] fn = "mu_o.mu_oil" ->
           mu_oil(Elem(p[1], i), Elem(p[2], i), Elem(p[3], i), Elem(p[4], i),
                  Elem(args0.kw.Pb, i), KwOr("model_uod", "Karto", i),
                  KwOr("model_uob", "Karto", i), KwOr("model_uo", "Karto", i)).val
      [] fn = "c_w.osif" ->
           c_w_osif(Elem(p[1], i), Elem(p[2], i), KwOr("S", 10000, i))

InBind == DOMAIN args0 = {"pos", "kw"}

C13_KeywordOnlyKept ==
    InBind =>
        /\ (\/ Len(args0.pos) > BeforeStar(fn)
            \/ \E n \in RequiredKeyword(fn) : n \notin DOMAIN args0.kw) =>
               /\ pc \in {"call", "raised"}
               /\ out = <<>>
        /\ pc = "returned" =>
               /\ Len(out) = Size(args0.pos[1])
               /\ \A i \in 1..Len(out) : out[i] = Unwrapped(i)

\* osif over two pressures with S left out, and vazquez with P_sp and T_sp
\* left out, have returned; the witness is the first.
C13_Witness ==
    /\ InBind
    /\ fn = "c_w.osif"
    /\ pc = "returned"
    /\ Len(out) = 2
    /\ "S" \notin DOMAIN args0.kw
    /\ args.S = Scalar(10000)

\* C14: the call of the package docstring, mu_oil(pressures, temperature,
\* api, rs, Pb) with Pb as the fifth positional object and pressures of at
\* least one element, is accepted: it does not raise, and when it has
\* finished it holds one viscosity per pressure.
C14_DocstringCallAccepted ==
    (/\ InBind
     /\ fn = "mu_o.mu_oil"
     /\ Len(args0.pos) = 5
     /\ Size(args0.pos[1]) > 0) =>
        /\ pc # "raised"
        /\ pc = "returned" => Len(out) = Size(args0.pos[1])

\* C15: the separator correction of the gas gravity is applied exactly when
\* both P_sp and T_sp are non-zero.  Each result of
\* bubble_pressure.vazquez_beggs, solution_gas_oil_ratio.vazquez and
\* oil_compressibility.vazquez_beggs carries the separator factor if and
\* only if both were given, and a call given exactly one of them returns
\* what the call given neither returns.
HasSeparatorFactor(v) ==
    \E k \in DOMAIN v.factors : "P_sp" \in DOMAIN v.factors[k].term

WithoutSeparator(i) ==
    CASE fn = "Pb.vazquez_beggs" ->
           {Pb_vazquez_beggs(Elem(args0.R_sb, i), Elem(args0.gamma_gas, i),
                             Elem(args0.T, i), Elem(args0.gamma_api, i), 0, 0,
                             Elem(args0.y_N2, i), Elem(args0.y_CO2, i),
                             Elem(args0.y_H2S, i), e) : e \in RoundErr}
      [] fn = "Rs.vazquez" ->
           {Rs_vazquez(Elem(args0.P, i), Elem(args0.T, i), Elem(args0.gamma_gas, i),
                       Elem(args0.gamma_api, i), Elem(args0.Pb, i), 0, 0)}
      [] fn = "c_o.vazquez_beggs" ->
           {c_o_vazquez_beggs(Elem(args0.P, i), Elem(args0.T, i),
                              Elem(args0.gamma_api, i), Elem(args0.gamma_gas, i),
                              Elem(args0.Rs, i), 0, 0)}

C15_SeparatorNeedsBoth ==
    (/\ fn \in {"Pb.vazquez_beggs", "Rs.vazquez", "c_o.vazquez_beggs"}
     /\ "P_sp" \in DOMAIN args0) =>
        \A i \in 1..Len(out) :
            LET P_sp == Elem(args0.P_sp, i)
                T_sp == Elem(args0.T_sp, i)
            IN  /\ HasSeparatorFactor(out[i]) <=> (P_sp # 0 /\ T_sp # 0)
                /\ (P_sp = 0 \/ T_sp = 0) => out[i] \in WithoutSeparator(i)

\* bubble_pressure.vazquez_beggs given P_sp alone over an array T.
C15_Witness ==
    /\ fn = "Pb.vazquez_beggs"
    /\ pc = "returned"
    /\ Len(out) = 2
    /\ args0.P_sp = Scalar(100)
    /\ args0.T_sp = Scalar(0)
    /\ ~HasSeparatorFactor(out[1])


\* The element the running invocation is on has P_pr = 1 and T_pr = 1.5.
AtOneAndThreeHalves(i) ==
    /\ FxDiv(Elem(args.P, i), Elem(args.Ppc, i)) = Fx
    /\ 2 * FxDiv(Elem(args.T, i), Elem(args.Tpc, i)) = 3 * Fx

\* z within 1e-4 of 0.89863
StableZ(v) == ~v.nan /\ Abs(v.z - 89863000) < 10000

\* C16: for P_pr = 1 and T_pr = 1.5 hall_yarborough leaves its loop by the
\* tolerance test before the 1000 passes are used up, and the z it returns
\* is a number that the rounding of the residual does not move.
C16_HallYarboroughConverges ==
    /\ (Running /\ loc.stage = "exit" /\ AtOneAndThreeHalves(Pos))
           => /\ loc.iteration < max_iterations
              /\ Abs(loc.F1) < tolerance
              /\ StableZ(HyValue(loc, HyCur))
    /\ \A i \in 1..Len(out) : AtOneAndThreeHalves(i) => StableZ(out[i])

C16_Witness ==
    /\ pc = "returned"
    /\ \E i \in 1..Len(out) : AtOneAndThreeHalves(i) /\ StableZ(out[i])


\* rho_ob*exp(co*(P-Pb)) of the docstring, rounded to 5 decimals
DocumentedDensity(i) ==
    LET ob == rho_ob(Elem(args.Bo, i), Elem(args.Rs, i),
                     Elem(args.gamma_api, i))
    IN  IF Elem(args.P, i) > Elem(args.Pb, i)
        THEN FxMul(ob, FxExp(10 * Elem(args.co, i)
                                * (Elem(args.P, i) - Elem(args.Pb, i))))
        ELSE ob

\* C17: rho_o_basic returns rho_ob*exp(co*(P-Pb)) rounded to 5 decimals for
\* a pressure over the bubble point, and rho_ob at and under it.
C17_DensityAsDocumented ==
    fn = "rho_o.rho_o_basic"
        => \A i \in 1..Len(out) : out[i] = DocumentedDensity(i)


\* Bo*((Rsi-Rs)*Bg) of the docstring
DocumentedTotalFactor(i) ==
    CoefMul((Elem(args.Rsi, i) - Elem(args.Rs, i)) * Elem(args.Bg, i),
            Elem(args.Bo, i))

\* C19: factor_total(Bo, Bg, Rsi, Rs) returns Bo*((Rsi-Rs)*Bg), the formula
\* of its docstring, for every input.
C19_TotalFactorAsDocumented ==
    fn = "Bt.factor_total"
        => \A i \in 1..Len(out) : out[i] = DocumentedTotalFactor(i)


\* What brown_katz gives for the arguments of the brown_katz_grv call when
\* the gas is declared condensed ('Y') for type_gas = True and not ('N')
\* for False.
SameDeclaration ==
    brown_katz(Elem(args.gamma_gas, 1),
               [N2 |-> Elem(args.yN2, 1), CO2 |-> Elem(args.yCO2, 1),
                H2S |-> Elem(args.yH2S, 1)],
               IF Elem(args.type_gas, 1) THEN "Y" ELSE "N")

\* C18: brown_katz_grv with type_gas=True, the documented 'Condensed Gas',
\* computes with the hydrocarbon coefficients brown_katz and brown_katz_df
\* take for a gas declared condensed, and with False with the ones they
\* take for a natural gas.
C18_SameSetAsBrownKatz ==
    (fn = "pc_g.brown_katz_grv" /\ pc = "returned")
        => out[1] = <<SameDeclaration.Ppc, SameDeclaration.Tpc>>


Dranchuk == {"z_g.dranchuk_abou_kassem", "z_g.dranchuk_purvis_robinson"}

\* The z held when the loop is left on input x: one Newton update for each
\* pass, the last pass being the one whose residual passes the test, or the
\* last the budget allows.
IterateAtExit(f, x) ==
    [guess |-> InitialGuess(f),
     n |-> IF x.conv = Never \/ x.conv >= max_iterations
           THEN max_iterations ELSE x.conv + 1]

\* C20: dranchuk_abou_kassem and dranchuk_purvis_robinson return the
\* equation of state evaluated once more at dr = 0.27*P_pr/(z_k*T_pr), z_k
\* being the iterate held when the loop is left, and not z_k itself.
C20_ReturnsEquationAtLastIterate ==
    fn \in Dranchuk
        => \A i \in 1..Len(out) :
              /\ out[i].of = "eos(0.27*(P_pr/(z*T_pr)))"
              /\ out[i].at = IterateAtExit(fn, Elem(args.P, i))
              /\ out[i].P = Elem(args.P, i).P

\* A call whose first element left the loop by the tolerance test and whose
\* second used up the budget.
C20_Witness ==
    /\ fn \in Dranchuk
    /\ pc = "returned"
    /\ Len(out) = 2
    /\ out[1].of = "eos(0.27*(P_pr/(z*T_pr)))"
    /\ out[1].at.n = 4
    /\ out[2].of = "eos(0.27*(P_pr/(z*T_pr)))"
    /\ out[2].at.n = max_iterations


\* Sub-formula of the i-th returned element of a gopal call.
FormOf(i) == IF fn = "z_g.gopal" THEN out[i].form ELSE out[i].dZr.form

PressureBandOf(k) == IF k = 13 THEN 4 ELSE ((k - 1) \div 4) + 1

TemperatureBandOf(k) == ((k - 1) % 4) + 1

\* P_pr of element i is b/100
PprIs(i, b) == 100 * Elem(args.P, i) = b * Elem(args.Ppc, i)

\* T_pr of element i is b/100
TprIs(i, b) == 100 * Elem(args.T, i) = b * Elem(args.Tpc, i)

\* C21: on a boundary shared by two bands the first band tested wins: at
\* P_pr = 1.2, 2.8, 5.4 the sub-formula of the lower pressure band is used,
\* and inside pressure bands 1 to 3 at T_pr = 1.2, 1.4, 2.0 the one of the
\* lower temperature band, in the z and in the c_gas variant.
C21_FirstMatchInBandOrder ==
    fn \in {"z_g.gopal", "c_g.gopal"}
        => \A i \in 1..Len(out) :
              /\ PprIs(i, 120) => PressureBandOf(FormOf(i)) = 1
              /\ PprIs(i, 280) => PressureBandOf(FormOf(i)) = 2
              /\ PprIs(i, 540) => PressureBandOf(FormOf(i)) = 3
              /\ FormOf(i) # 13 =>
                    /\ TprIs(i, 120) => TemperatureBandOf(FormOf(i)) = 1
                    /\ TprIs(i, 140) => TemperatureBandOf(FormOf(i)) = 2
                    /\ TprIs(i, 200) => TemperatureBandOf(FormOf(i)) = 3

\* A c_gas call returned on the corner P_pr = 5.4, T_pr = 2.0 and on
\* P_pr = 1.2: sub-formulas 11 and 3.
C21_Witness ==
    /\ fn = "c_g.gopal"
    /\ pc = "returned"
    /\ Len(out) = 2
    /\ PprIs(1, 540) /\ TprIs(1, 200) /\ FormOf(1) = 11
    /\ PprIs(2, 120) /\ FormOf(2) = 3


\* The step that leaves the loop by the tolerance test.
LeavesByTolerance ==
    /\ fn \in Solvers
    /\ loc.stage = "loop"
    /\ loc'.stage = "exit"
    /\ loc'.F = "small"

\* C22: in the three Newton solvers the pass that leaves the loop by the
\* tolerance test has tested the residual of the iterate x_n it started
\* with and carries x_n+1 = x_n - F/F' out of the loop, and the counter
\* holds the number of passes before it, the ones whose residual failed.
C22_UpdateBeforeTest ==
    [][LeavesByTolerance =>
          /\ ResidualPasses(fn, Cur("P"), loc.y)
          /\ loc'.y = NewtonUpdate(loc.y)
          /\ loc'.y # loc.y
          /\ loc'.iteration = loc.iteration
          /\ loc'.iteration = loc.updates
          /\ loc'.updates = loc'.iteration + 1]_vars

\* Left by the tolerance test on the fourth pass: x_4 is carried out with
\* the counter at 3.
C22_Witness ==
    /\ fn \in Solvers
    /\ loc.stage = "exit"
    /\ loc.F = "small"
    /\ Cur("P").conv = 3
    /\ loc.y.n = 4
    /\ loc.iteration = 3


\* The coefficient of P_pr in sub-formula k of the z factor: a*T_pr + b for
\* the linear ones, the power for sub-formula 13.
SlopeOfZ(k, T, Tpc) ==
    IF k = 13
    THEN [form |-> 13, pow |-> GopalPowBase(T, Tpc), num |-> 0, den |-> 1]
    ELSE [form |-> k, pow |-> <<0, 1>>,
          num |-> GopalZCoef[k][1] * T + GopalZCoef[k][2] * Tpc,
          den |-> 10000 * Tpc]

\* C23: the c_gas variant of gopal selects the sub-formula the z variant
\* selects for the same input, and its slope dZr is the coefficient of P_pr
\* in that sub-formula of z, for all 13 sub-formulas.
C23_SlopeIsDerivativeOfZ ==
    fn = "c_g.gopal"
        => \A i \in 1..Len(out) :
              LET z == z_g_gopal(Elem(args.P, i), Elem(args.T, i),
                                 Elem(args.Ppc, i), Elem(args.Tpc, i))
              IN  /\ z.exc = "none"
                  /\ out[i].dZr.form = z.val.form
                  /\ out[i].dZr = SlopeOfZ(z.val.form, Elem(args.T, i),
                                           Elem(args.Tpc, i))


\* The factors of the i-th result that are an impurity correction.
ImpurityFactors(i) ==
    {j \in 1..Len(out[i].factors) :
        out[i].factors[j].term.expr = "c_N2*c_CO2*c_H2S"}

\* C24: whenever a bubble-pressure correlation applies the impurity
\* correction, c_N2 and c_CO2 are evaluated at T - 460 for the T the caller
\* passed: the conversion is applied once, with or without separator
\* conditions.
C24_ImpurityAtReservoirTemperature ==
    (fn \in {"Pb.standing", "Pb.vazquez_beggs"} /\ pc = "returned")
        => \A i \in 1..Len(out) : \A j \in ImpurityFactors(i) :
              out[i].factors[j].term.T = Elem(args0.T, i) - 460


\* A*P_pr/y1 with the A of the residual
ZFromResidualCoefficient(l, k) == FxDiv(FxMul(k.A, k.P_pr), l.y1)

\* C25: the z hall_yarborough returns is A*P_pr/y1 with the coefficient A
\* of its residual F1 (to 1e-6, the rounding of the products), so that a y1
\* with F1 = 0 gives the z of the equation of state.
C25_SameCoefficientAsResidual ==
    (fn = "z_g.hall_yarborough" /\ Running /\ loc.stage = "exit" /\ ~loc.nan)
        => Abs(HyValue(loc, HyCur).z - ZFromResidualCoefficient(loc, HyCur)) < 100


\* 0.2 <= P_pr <= 15 and 1.05 <= T_pr <= 3.0 for element i
InGopalRange(i) ==
    /\ 20 * Elem(args.Ppc, i) <= 100 * Elem(args.P, i)
    /\ 100 * Elem(args.P, i) <= 1500 * Elem(args.Ppc, i)
    /\ 105 * Elem(args.Tpc, i) <= 100 * Elem(args.T, i)
    /\ 100 * Elem(args.T, i) <= 300 * Elem(args.Tpc, i)

\* C26: the bands of gopal leave no gap: an element with 0.2 <= P_pr <= 15
\* and 1.05 <= T_pr <= 3.0 is assigned its result by one of the 13
\* sub-formulas and a value is returned for it, in both variants.
C26_NoGapBetweenBands ==
    fn \in {"z_g.gopal", "c_g.gopal"}
        => /\ (pc = "raised" /\ exc # "ValueError") => ~InGopalRange(Pos)
           /\ \A i \in 1..Len(out) :
                 InGopalRange(i) => FormOf(i) \in 1..13
           /\ (pc = "returned" /\ \A i \in 1..BroadcastSize(args) : InGopalRange(i))
                 => Len(out) = BroadcastSize(args)

\* The corners P_pr = 0.2 and P_pr = 15 at T_pr = 3.0.
C26_Witness ==
    /\ fn = "z_g.gopal"
    /\ pc = "returned"
    /\ Len(out) = 2
    /\ PprIs(1, 20) /\ PprIs(2, 1500) /\ TprIs(1, 300)
    /\ InGopalRange(1) /\ InGopalRange(2)
    /\ FormOf(1) = 4 /\ FormOf(2) = 13


\* The pressure and the bubble pressure of element i, in psia or by logarithm
PressureOf(x) == IF fn = "Rs.vazquez" THEN x.ln ELSE x
AboveBubblePoint(i) == PressureOf(Elem(args.P, i)) >= PressureOf(Elem(args.Pb, i))

\* The correlation fn at the pressure P, the other inputs those of element i
RsAt(P, i) ==
    CASE fn = "Rs.standing" ->
             Rs_standing(P, Elem(args.T, i), Elem(args.gamma_gas, i),
                         Elem(args.gamma_api, i), Elem(args.Pb, i))
      [] fn = "Rs.lasater" ->
             Rs_lasater(P, Elem(args.T, i), Elem(args.gamma_gas, i),
                        Elem(args.gamma_api, i), Elem(args.Pb, i))
      [] fn = "Rs.vazquez" ->
             Rs_vazquez(P, Elem(args.T, i), Elem(args.gamma_gas, i),
                        Elem(args.gamma_api, i), Elem(args.Pb, i),
                        Elem(args.P_sp, i), Elem(args.T_sp, i))

VazquezBeggs == {"Pb.vazquez_beggs", "Rs.vazquez", "Bo.vazquez_beggs", "c_o.vazquez_beggs"}

\* The term gamma_gc/gamma_gas that the Vazquez-Beggs function f computes
\* from (gamma_api, T_sp, P_sp) when the separator is given
CorrectedGravity(f, gamma_api, T_sp, P_sp) ==
    CASE f = "Pb.vazquez_beggs" ->
             Pb_vazquez_beggs(200, 70, 660, gamma_api, P_sp, T_sp, 0, 0, 0, 0).factors[1].term
      [] f = "Rs.vazquez" ->
             Rs_vazquez(PVal(1000), 660, 70, gamma_api, PVal(1000),
                        P_sp, T_sp).factors[1].term
      [] f = "Bo.vazquez_beggs" ->
             Bo_vazquez_beggs(660, 200, gamma_api, 70, 0, 0, 0, P_sp, T_sp).factors[1].term
      [] f = "c_o.vazquez_beggs" ->
             c_o_vazquez_beggs(1000, 660, gamma_api, 70, 200, P_sp, T_sp).factors[1].term

\* The term of the corrected gravity in the value v that fn returned
CorrectedGravityIn(v) ==
    IF fn = "Pb.vazquez_beggs" THEN v.factors[1].term
    ELSE v.factors[Len(v.factors)].term

\* C28: with the separator given, the four Vazquez-Beggs functions compute
\* gamma_gc by one expression of (gamma_gas, gamma_api, T_sp, P_sp) and
\* convert T_sp in one way: the term in a returned value is the term each
\* of the four computes from the caller's separator conditions.
C28_SameCorrectedGravity ==
    fn \in VazquezBeggs
        => \A i \in 1..Len(out) :
              SeparatorGiven(Elem(args.P_sp, i), Elem(args.T_sp, i))
                  => \A g \in VazquezBeggs :
                        CorrectedGravityIn(out[i])
                            = CorrectedGravity(g, Elem(args.gamma_api, i),
                                               Elem(args.T_sp, i), Elem(args.P_sp, i))


\* The three models of the running mu_oil call are keys of their tables.
ModelsKnown ==
    /\ Cur("model_uod") \in mu_od
    /\ Cur("model_uob") \in mu_ob
    /\ Cur("model_uo") \in mu_o

MuOilBound == fn = "mu_o.mu_oil" /\ InBind /\ "model_uod" \in DOMAIN args

\* C29: mu_oil computes the dead-oil viscosity, the bubble-point viscosity
\* from it and the viscosity from that, each by the model the caller named;
\* when one of model_uod, model_uob, model_uo is not a key of its table the
\* call raises and holds no value, whatever the other two are.
C29_UnknownModelRaises ==
    MuOilBound =>
        /\ (~ModelsKnown /\ pc # "probe") => pc = "raised" /\ exc # "none" /\ out = <<>>
        /\ \A i \in 1..Len(out) :
              /\ out[i].mu_o = Elem(args.model_uo, i)
              /\ out[i].P = Elem(args.P, i)
              /\ out[i].mu_ob.mu_ob = Elem(args.model_uob, i)
              /\ out[i].mu_ob.Rs = Elem(args.Rs, i)
              /\ out[i].mu_ob.mu_od.mu_od = Elem(args.model_uod, i)
              /\ out[i].mu_ob.mu_od.T = Elem(args.T, i)

\* A call naming 'Beal' for the bubble-point stage, which has no such model,
\* has raised although 'Beal' is a key of the other two tables.
C29_Witness ==
    /\ MuOilBound
    /\ pc = "raised"
    /\ exc = "UnboundLocalError"
    /\ Cur("model_uob") = "Beal"
    /\ Cur("model_uod") \in mu_od
    /\ Cur("model_uo") \in mu_o
    /\ out = <<>>

====
